---- MODULE Spec2Model ----
(***************************************************************************)
(* A model of the Brultech energy-monitor driver (bin/user/brultech.py):   *)
(* the socket transport, the command/acknowledgement exchange, the start-  *)
(* up sequence, the validation of binary frames and the derivation of      *)
(* power and delta energy from successive records.                         *)
(*                                                                         *)
(* Bytes are integers 0..255, byte strings are sequences of bytes.         *)
(* Python's None and 0 are both falsy; where the code only tests           *)
(* truthiness ("chars or 4096", "if not chars") the model uses 0 for both. *)
(***************************************************************************)
EXTENDS Integers, Sequences, FiniteSets, TLC

(***************************************************************************)
(* Bounds of the model.                                                    *)
(***************************************************************************)
\* Largest number of bytes asked of a stand-alone read().
MaxChars == 4
\* Largest max_tries handed to read() and write_with_response().
MaxTries == 3
\* Number of bytes the peer sends during a stand-alone read().
MaxSent == 5
\* Largest number of bytes the peer sends in one go during a stand-alone read().
MaxChunk == 2
\* Largest number of bytes under way to the driver (sent and not yet received).
MaxQueue == 6
\* Length of a binary frame of the model (packet_length, 619 or 625 in the code).
PacketLen == 7
\* Number of get_packet() calls followed after start-up.
MaxPolls == 1
\* Number of packets handed to BrultechService.new_loop_packet.
MaxSamples == 2
\* The energy counters of the model count modulo EnergyModulus (2^40 in the
\* device), so that a counter near the modulus is within reach.
EnergyModulus == 64
\* Number of leading bytes of an argument of unpack() that may be non-zero.
MaxUnpackLen == 2
\* Largest number of key=value pairs of an ASCII packet.
MaxPairs == 2
\* Largest channel number of the names handed to the regular expressions.
MaxChannelNo == 12
\* Largest number of items of the source of a GenWithDelay.
MaxItems == 4
\* Number of get_packet_from() calls followed in GEM.gen_packets.
MaxCalls == 6
\* Number of channels of a packet handed to GEMBase.calculate (NUM_CHAN, 32
\* in the code).
NumChan == 2
\* Number of times genLoopPackets() is called again after a failed cycle.
MaxRestarts == 1
\* Number of channel slots of a binary packet of the model (48 in the device:
\* the offsets 245, 485, 489 and 585 of the code are 5 + 5*48, 5 + 10*48,
\* 9 + 10*48 and 9 + 12*48).
NumSlots == 1

(***************************************************************************)
(* Program constants.                                                      *)
(***************************************************************************)
\* "remaining = chars or 4096"
RecvDefault == 4096
\* Default of the max_tries parameter of read() and write_with_response().
DefaultMaxTries == 3
\* "self.socket.recv(8192, socket.MSG_PEEK)" in queued_bytes()
PeekSize == 8192
\* "self.socket.recv(4096)" in flush_input()
FlushSize == 4096
\* "self.packet_ID = 5" of GEMBin48Net, inherited by GEMBin48NetTime
PacketID == 5
\* "stale = 1800" of DEFAULTS_INI, read by BTExtends.__init__
stale == 1800
\* Width in bytes of the widest field handed to unpack(), an energy counter:
\* "extract_seq(byte_buf[5:], self.max_channels, 5, ...)"
UnpackWidth == 5
\* "extract_seq(byte_buf[588:], 4, 3, 'ch%d_count')"
NumPulses == 4
\* "for i in range(8)" over the temperatures
NumTemps == 8
\* "SEC_COUNTER_MAX   = 16777216      # 256^3"
SEC_COUNTER_MAX == 16777216

VARIABLES
    pc,             \* control point of the (single) driver thread
    net,            \* bytes sent by the peer, not yet arrived at the socket
    sock_queue,     \* bytes arrived at the socket, not yet received
    peer_closed,    \* the peer has shut down its side of the connection
    peer_sent,      \* number of bytes the peer has sent on its own (PeerSend)
    log,            \* history: the writes, acknowledgements and flushes, in order
    rd_chars,       \* read(): parameter chars
    rd_max,         \* read(): parameter max_tries
    rd_attempt,     \* read(): local attempt
    rd_buf,         \* read(): local buf
    rd_remaining,   \* read(): local remaining
    rd_recvs,       \* read(): number of socket.recv calls made
    rd_status,      \* read(): "running", "returned" or the exception raised
    rd_ret,         \* read(): control point of the caller
    cmd_prompt,     \* write_with_response(): parameter prompt
    cmd_expected,   \* write_with_response(): parameter expected
    cmd_max,        \* write_with_response(): parameter max_tries
    cmd_try,        \* write_with_response(): loop variable i_try
    cmd_writes,     \* write_with_response(): number of writes of the prompt
    cmd_hist,       \* history: for each try made, whether its response was the expected one
    cmd_status,     \* write_with_response(): "running", "returned" or the exception
    cmd_ret,        \* write_with_response(): control point of the caller
    packet_type,    \* Brultech: configured packet_type
    drv_max_tries,  \* Brultech.max_tries: configured max_tries
    stp,            \* Brultech.setup(): number of the command being exchanged
    drv_error,      \* Brultech.__init__(): the exception that ended it, or "none"
    polls,          \* number of get_packet() calls completed by the generator
    gp_buf,         \* get_packet(): byte_buf, the buffer handed to the checks
    gp_calls,       \* get_packet(): the methods it called on the buffer, in order
    gp_result,      \* get_packet(): "none", "packet" or the exception raised
    gp_packet,      \* get_packet(): the packet returned
    gp_args,        \* get_packet(): the values formatted into the exception's text
    gp_reply,       \* history: what the device sent on the last packet request
    fr_orig,        \* a valid buffer, before one of its bytes was changed
    fr_pos,         \* index of the changed byte, -1 when none was changed
    prev_packet,    \* BrultechService.prev_packet
    dv_prev,        \* history: prev_packet when the last packet came in
    dv_in,          \* history: the last packet as it came in
    dv_out,         \* history: the last packet as augment_record left it
    dv_error,       \* history: the exception augment_record raised on it, or "none"
    dv_count,       \* number of packets that have come in
    fn_in,          \* the arguments of a utility function called on its own
    fn_out          \* the value it returned, or the exception it raised

sockVars == <<net, sock_queue, peer_closed, peer_sent, log>>
rdVars == <<rd_chars, rd_max, rd_attempt, rd_buf, rd_remaining, rd_recvs, rd_status, rd_ret>>
cmdVars == <<cmd_prompt, cmd_expected, cmd_max, cmd_try, cmd_writes, cmd_hist, cmd_status, cmd_ret>>
drvVars == <<packet_type, drv_max_tries, stp, drv_error, polls>>
gpVars == <<gp_buf, gp_calls, gp_result, gp_packet, gp_args, gp_reply, fr_orig, fr_pos>>
dvVars == <<prev_packet, dv_prev, dv_in, dv_out, dv_error, dv_count>>
fnVars == <<fn_in, fn_out>>
appVars == <<drvVars, gpVars, dvVars, fnVars>>
vars == <<pc, sockVars, rdVars, cmdVars, appVars>>

(***************************************************************************)
(* Helpers on sequences.                                                   *)
(***************************************************************************)
Min(a, b) == IF a < b THEN a ELSE b

Take(s, k) == SubSeq(s, 1, k)

Drop(s, k) == SubSeq(s, k + 1, Len(s))

\* The history with the event e added; an event that repeats the last one
\* (the same prompt written again in a retry) is recorded once.
Logged(e) == IF log # <<>> /\ log[Len(log)] = e THEN log ELSE Append(log, e)

\* An event: a write of a prompt, the acknowledgement of a prompt (with the
\* response that was taken for it) or a flush of the input.
Event(ev, prompt, data) == [ev |-> ev, prompt |-> prompt, data |-> data]

\* A prompt: the command and the argument formatted into it.
Prompt(cmd, arg) == [cmd |-> cmd, arg |-> arg]

NoPrompt == Prompt("", <<>>)

(***************************************************************************)
(* The peer and the network.                                               *)
(***************************************************************************)
\* Bytes move from the network into the socket's receive queue.
Arrive ==
    /\ net # <<>>
    /\ \E k \in 1..Len(net) :
         /\ sock_queue' = sock_queue \o Take(net, k)
         /\ net' = Drop(net, k)
    /\ UNCHANGED <<pc, peer_closed, peer_sent, log, rdVars, cmdVars, appVars>>

\* The peer shuts down its side, after which socket.recv returns the empty
\* string. What the peer sent before is received first, so the shutdown is
\* taken to happen once that has been received.
PeerClose ==
    /\ ~peer_closed
    /\ net = <<>> /\ sock_queue = <<>>
    /\ peer_closed' = TRUE
    /\ UNCHANGED <<pc, net, sock_queue, peer_sent, log, rdVars, cmdVars, appVars>>

\* The peer sends k more bytes; byte i of the stream has the value i, so that
\* a buffer shows which bytes of the stream it holds.
PeerSend ==
    /\ ~peer_closed
    /\ \E k \in 1..MaxChunk :
         /\ peer_sent + k <= MaxSent
         /\ net' = net \o [i \in 1..k |-> peer_sent + i]
         /\ peer_sent' = peer_sent + k
    /\ UNCHANGED <<pc, sock_queue, peer_closed, log, rdVars, cmdVars, appVars>>

(***************************************************************************)
(* SocketConnection.read(chars, max_tries)                                 *)
(***************************************************************************)
\* "remaining = chars or 4096"
InitialRemaining(chars) == IF chars = 0 THEN RecvDefault ELSE chars

\* The test one attempt too early: "if attempt >= max_tries".
RetryBudgetExceededEarly(attempt, max_tries) == attempt >= max_tries

\* "if attempt > max_tries: raise weewx.RetriesExceeded"
RetryBudgetExceeded(attempt, max_tries) == attempt > max_tries

\* "remaining -= len(buf)": buf_len is the length of the whole buffer
\* collected so far, the chunk just received included.
NextRemaining(remaining, buf_len) == remaining - buf_len

\* "while remaining > 0"
ReadContinues(remaining) == remaining > 0

\* read() has returned or raised and its caller has taken the result: the
\* locals of read() are gone.
ReadLeave ==
    /\ rd_chars' = 0
    /\ rd_max' = DefaultMaxTries
    /\ rd_attempt' = 0
    /\ rd_buf' = <<>>
    /\ rd_remaining' = 0
    /\ rd_recvs' = 0
    /\ rd_status' = "none"
    /\ rd_ret' = "none"

\* Entry of read(chars, max_tries), called from control point ret.
ReadEnter(chars, max_tries, ret) ==
    /\ rd_chars' = chars
    /\ rd_max' = max_tries
    /\ rd_attempt' = 0
    /\ rd_buf' = <<>>
    /\ rd_remaining' = InitialRemaining(chars)
    /\ rd_recvs' = 0
    /\ rd_status' = "running"
    /\ rd_ret' = ret
    /\ pc' = "read"

\* One pass of the loop in which socket.recv(remaining) returns chunk.
ReadGot(chunk) ==
    LET buf == rd_buf \o chunk
        rem == NextRemaining(rd_remaining, Len(buf))
        more == rd_chars # 0 /\ ReadContinues(rem)
    IN  /\ rd_attempt' = rd_attempt + 1
        /\ rd_recvs' = rd_recvs + 1
        /\ rd_buf' = buf
        /\ rd_remaining' = IF rd_chars = 0 THEN rd_remaining ELSE rem
        /\ rd_status' = IF more THEN "running" ELSE "returned"
        /\ pc' = IF more THEN "read" ELSE rd_ret
        /\ UNCHANGED <<rd_chars, rd_max, rd_ret>>

\* The retry budget is used up: read raises RetriesExceeded.
ReadExhausted ==
    /\ pc = "read"
    /\ RetryBudgetExceeded(rd_attempt + 1, rd_max)
    /\ rd_attempt' = rd_attempt + 1
    /\ rd_status' = "RetriesExceeded"
    /\ pc' = rd_ret
    /\ UNCHANGED <<rd_chars, rd_max, rd_buf, rd_remaining, rd_recvs, rd_ret, sockVars, cmdVars, appVars>>

\* socket.recv(remaining) returns the queued bytes, at most remaining of them.
ReadRecv ==
    /\ pc = "read"
    /\ ~RetryBudgetExceeded(rd_attempt + 1, rd_max)
    /\ sock_queue # <<>>
    /\ LET k == Min(rd_remaining, Len(sock_queue))
       IN  /\ ReadGot(Take(sock_queue, k))
           /\ sock_queue' = Drop(sock_queue, k)
    /\ UNCHANGED <<net, peer_closed, peer_sent, log, cmdVars, appVars>>

\* socket.recv(remaining) returns the empty string: the peer has closed.
ReadRecvEOF ==
    /\ pc = "read"
    /\ ~RetryBudgetExceeded(rd_attempt + 1, rd_max)
    /\ sock_queue = <<>> /\ net = <<>> /\ peer_closed
    /\ ReadGot(<<>>)
    /\ UNCHANGED <<sockVars, cmdVars, appVars>>

\* socket.recv(remaining) raises socket.timeout or socket.error, reraised
\* as WeeWxIOError.
ReadRecvError ==
    /\ pc = "read"
    /\ ~RetryBudgetExceeded(rd_attempt + 1, rd_max)
    /\ sock_queue = <<>>
    /\ rd_attempt' = rd_attempt + 1
    /\ rd_recvs' = rd_recvs + 1
    /\ rd_status' = "WeeWxIOError"
    /\ pc' = rd_ret
    /\ UNCHANGED <<rd_chars, rd_max, rd_buf, rd_remaining, rd_ret, sockVars, cmdVars, appVars>>

ReadStep == ReadExhausted \/ ReadRecv \/ ReadRecvEOF \/ ReadRecvError

\* The socket after SocketConnection.__init__; no read() is under way.
InitSock ==
    /\ net = <<>>
    /\ sock_queue = <<>>
    /\ peer_closed = FALSE
    /\ peer_sent = 0
    /\ log = <<>>

InitRd ==
    /\ rd_chars = 0
    /\ rd_max = DefaultMaxTries
    /\ rd_attempt = 0
    /\ rd_buf = <<>>
    /\ rd_remaining = 0
    /\ rd_recvs = 0
    /\ rd_status = "none"
    /\ rd_ret = "none"

(***************************************************************************)
(* SocketConnection.queued_bytes() and SocketConnection.flush_input()      *)
(***************************************************************************)
\* "len(self.socket.recv(8192, socket.MSG_PEEK))" with a zero timeout; an
\* empty queue raises socket.error and leaves length at 0.
QueuedBytes == Min(PeekSize, Len(sock_queue))

\* "self.socket.recv(4096)" with a zero timeout, the result thrown away.
Flushed(queue) == Drop(queue, Min(FlushSize, Len(queue)))

(***************************************************************************)
(* The commands of the device and what it may answer.                      *)
(***************************************************************************)
\* b"OFF\r\n"
OFF_ACK == <<79, 70, 70, 13, 10>>
\* b"OK\r\n"
OK_ACK == <<79, 75, 13, 10>>
\* b'C'
C_ACK == <<67>>
\* b"PKT\r\n"
PKT_ACK == <<80, 75, 84, 13, 10>>
\* A reply that is no acknowledgement at all: b"?"
Garbled == <<63>>
\* Input that was on its way before the driver wrote anything: b"!"
StaleInput == <<33>>

PacketTypes == {"GEMBin48NetTime", "GEMBin48Net", "GEMAscii"}

\* self.packet_format of the three packet classes
PacketFormat(ptype) ==
    CASE ptype = "GEMBin48NetTime" -> 4
      [] ptype = "GEMBin48Net" -> 5
      [] ptype = "GEMAscii" -> 2

\* "%02d" of a number below 100, as its two decimal digits
TwoDigits(n) == <<n \div 10, n % 10>>

\* setup() with the packet type selected before the temperature unit.
SetupCommandsSwapped(ptype) ==
    << [prompt |-> Prompt("^^^SYSOFF", <<>>), expected |-> OFF_ACK],
       [prompt |-> Prompt("^^^SYSKAI0", <<>>), expected |-> OK_ACK],
       [prompt |-> Prompt("^^^SYSPKT", TwoDigits(PacketFormat(ptype))), expected |-> PKT_ACK],
       [prompt |-> Prompt("^^^TMPDGC", <<>>), expected |-> C_ACK] >>

\* The prompt/acknowledgement pairs of Brultech.setup() followed by
\* BTBase.setup(), in the order of the calls.
SetupCommands(ptype) ==
    << [prompt |-> Prompt("^^^SYSOFF", <<>>), expected |-> OFF_ACK],
       [prompt |-> Prompt("^^^SYSKAI0", <<>>), expected |-> OK_ACK],
       [prompt |-> Prompt("^^^TMPDGC", <<>>), expected |-> C_ACK],
       [prompt |-> Prompt("^^^SYSPKT", TwoDigits(PacketFormat(ptype))), expected |-> PKT_ACK] >>

\* What the device may send back on a prompt for which the driver expects
\* the given acknowledgement: the acknowledgement, nothing, or something else.
DeviceReplies(expected) == {expected, <<>>, Garbled}

\* The peer answers with reply, as far as the connection is open and the
\* model's queue bound allows.
PeerReplies(reply) ==
    /\ reply # <<>> =>
         /\ ~peer_closed
         /\ Len(net) + Len(sock_queue) + Len(reply) <= MaxQueue
    /\ net' = net \o reply
    /\ UNCHANGED peer_sent

(***************************************************************************)
(* BaseConnection.write_with_response(prompt, expected, max_tries)         *)
(***************************************************************************)
\* The loop with one pass too many: "range(max_tries + 1)".
LoopHasNextOffByOne(i_try, max_tries) == i_try <= max_tries

\* "for i_try in range(max_tries)"
LoopHasNext(i_try, max_tries) == i_try < max_tries

\* needle occurs in hay as a substring.
Contains(hay, needle) ==
    \E i \in 0..(Len(hay) - Len(needle)) : SubSeq(hay, i + 1, i + Len(needle)) = needle

\* The comparison as a search: "if expected in response".
ResponseAcceptedSubstring(response, expected) == Contains(response, expected)

\* "if response == expected: return"
ResponseAccepted(response, expected) == response = expected

\* Entry of write_with_response, called from control point ret.
CmdEnter(prompt, expected, max_tries, ret) ==
    /\ cmd_prompt' = prompt
    /\ cmd_expected' = expected
    /\ cmd_max' = max_tries
    /\ cmd_try' = 0
    /\ cmd_writes' = 0
    /\ cmd_hist' = <<>>
    /\ cmd_ret' = ret
    /\ cmd_status' = IF LoopHasNext(0, max_tries) THEN "running" ELSE "RetriesExceeded"
    /\ pc' = IF LoopHasNext(0, max_tries) THEN "cmd_write" ELSE ret

\* "self.write(prompt)": socket.sendall succeeds; the device answers.
CmdWrite ==
    /\ pc = "cmd_write"
    /\ log' = Logged(Event("write", cmd_prompt, <<>>))
    /\ cmd_writes' = cmd_writes + 1
    /\ \E reply \in DeviceReplies(cmd_expected) : PeerReplies(reply)
    /\ pc' = "cmd_sleep"
    /\ UNCHANGED <<sock_queue, peer_closed, rdVars, appVars>>
    /\ UNCHANGED <<cmd_prompt, cmd_expected, cmd_max, cmd_try, cmd_hist, cmd_status, cmd_ret>>

\* "self.write(prompt)": socket.sendall raises, reraised as WeeWxIOError.
CmdWriteError ==
    /\ pc = "cmd_write"
    /\ cmd_status' = "WeeWxIOError"
    /\ pc' = cmd_ret
    /\ UNCHANGED <<sockVars, rdVars, appVars>>
    /\ UNCHANGED <<cmd_prompt, cmd_expected, cmd_max, cmd_try, cmd_writes, cmd_hist, cmd_ret>>

\* After the sleep: "length = self.queued_bytes()" and the call of
\* "self.read(length)", which runs with read's default max_tries.
CmdPeek ==
    /\ pc = "cmd_sleep"
    /\ ReadEnter(QueuedBytes, DefaultMaxTries, "cmd_check")
    /\ UNCHANGED <<sockVars, cmdVars, appVars>>

\* read() raised: the exception leaves write_with_response.
CmdReadFailed ==
    /\ pc = "cmd_check"
    /\ ReadLeave
    /\ rd_status # "returned"
    /\ cmd_status' = rd_status
    /\ pc' = cmd_ret
    /\ UNCHANGED <<sockVars, appVars>>
    /\ UNCHANGED <<cmd_prompt, cmd_expected, cmd_max, cmd_try, cmd_writes, cmd_hist, cmd_ret>>

\* "if response == expected: return"
CmdAccepted ==
    /\ pc = "cmd_check"
    /\ ReadLeave
    /\ rd_status = "returned"
    /\ ResponseAccepted(rd_buf, cmd_expected)
    /\ cmd_hist' = Append(cmd_hist, rd_buf = cmd_expected)
    /\ cmd_status' = "returned"
    /\ log' = Logged(Event("ack", cmd_prompt, rd_buf))
    /\ pc' = cmd_ret
    /\ UNCHANGED <<net, sock_queue, peer_closed, peer_sent, appVars>>
    /\ UNCHANGED <<cmd_prompt, cmd_expected, cmd_max, cmd_try, cmd_writes, cmd_ret>>

\* The response is not the expected one: next pass of the loop, or the
\* loop's else branch, which raises RetriesExceeded.
CmdRejected ==
    /\ pc = "cmd_check"
    /\ ReadLeave
    /\ rd_status = "returned"
    /\ ~ResponseAccepted(rd_buf, cmd_expected)
    /\ cmd_hist' = Append(cmd_hist, rd_buf = cmd_expected)
    /\ cmd_try' = cmd_try + 1
    /\ cmd_status' = IF LoopHasNext(cmd_try + 1, cmd_max) THEN "running" ELSE "RetriesExceeded"
    /\ pc' = IF LoopHasNext(cmd_try + 1, cmd_max) THEN "cmd_write" ELSE cmd_ret
    /\ UNCHANGED <<sockVars, appVars>>
    /\ UNCHANGED <<cmd_prompt, cmd_expected, cmd_max, cmd_writes, cmd_ret>>

InitCmd ==
    /\ cmd_prompt = NoPrompt
    /\ cmd_expected = <<>>
    /\ cmd_max = DefaultMaxTries
    /\ cmd_try = 0
    /\ cmd_writes = 0
    /\ cmd_hist = <<>>
    /\ cmd_status = "none"
    /\ cmd_ret = "none"

InitDrv ==
    /\ packet_type = "GEMBin48NetTime"
    /\ drv_max_tries = DefaultMaxTries
    /\ stp = 0
    /\ drv_error = "none"
    /\ polls = 0

(***************************************************************************)
(* Validation of a binary frame: BTBase._check_ends, _check_checksum and   *)
(* _check_ID, and the part of BTBase.get_packet that follows the read.     *)
(* The frames of the model have PacketLen bytes instead of 619 or 625:     *)
(* byte 0 and 1 the header, byte 2 the identifier, then the payload, then  *)
(* the two footer bytes and the checksum.                                  *)
(***************************************************************************)
\* buf[i] of Python for i >= 0 and buf[i] for i < 0 (counted from the end)
HasIndex(buf, i) == IF i >= 0 THEN i < Len(buf) ELSE -i <= Len(buf)

At(buf, i) == IF i >= 0 THEN buf[i + 1] ELSE buf[Len(buf) + i + 1]

RECURSIVE SumBytes(_)
\* sum(buf)
SumBytes(buf) == IF buf = <<>> THEN 0 ELSE buf[1] + SumBytes(Drop(buf, 1))

\* buf[:-1]
AllButLast(buf) == IF buf = <<>> THEN <<>> ELSE Take(buf, Len(buf) - 1)

\* "chksum & 0xff"
LowByte(n) == n % 256

\* _check_ends that looks at the header only.
CheckEndsHeaderOnly(buf) ==
    IF ~HasIndex(buf, 0) \/ ~HasIndex(buf, 1) THEN "IndexError"
    ELSE IF At(buf, 0) # 254 \/ At(buf, 1) # 255 THEN "Bad header or footer"
    ELSE "ok"

\* BTBase._check_ends: "ok" or the exception it raises. The chained
\* comparisons index the buffer from the left, the second pair only when the
\* first comparison held.
CheckEnds(buf) ==
    IF ~HasIndex(buf, 0) \/ ~HasIndex(buf, -2) THEN "IndexError"
    ELSE IF ~(At(buf, 0) = At(buf, -2) /\ At(buf, -2) = 254) THEN "Bad header or footer"
    ELSE IF ~HasIndex(buf, 1) \/ ~HasIndex(buf, -3) THEN "IndexError"
    ELSE IF ~(At(buf, 1) = At(buf, -3) /\ At(buf, -3) = 255) THEN "Bad header or footer"
    ELSE "ok"

\* _check_checksum that lets every buffer through.
CheckChecksumAlwaysOk(buf) == "ok"

\* BTBase._check_checksum: "ok" or the exception it raises.
CheckChecksum(buf) ==
    IF ~HasIndex(buf, -1) THEN "IndexError"
    ELSE IF LowByte(SumBytes(AllButLast(buf))) # At(buf, -1) THEN "Bad checksum"
    ELSE "ok"

\* BTBase._check_ID: "ok" or the exception it raises.
CheckID(buf, packet_ID) ==
    IF ~HasIndex(buf, 2) THEN "IndexError"
    ELSE IF packet_ID # At(buf, 2) THEN "Bad packet ID"
    ELSE "ok"

\* The packet of the model: the payload bytes between identifier and footer.
NoPacket == [payload |-> <<>>, present |-> FALSE]

\* _extract_packet_from takes its fields from fixed offsets counted from the
\* start of the buffer, the last of them (the temperatures) ending where the
\* footer begins: here the slice byte_buf[3:PacketLen - 3], which like any
\* Python slice ends with the buffer when the buffer is shorter. A buffer that
\* passes the three checks has at least 6 bytes, so the first field is there.
ExtractPacketFrom(buf) ==
    [payload |-> SubSeq(buf, 4, Min(PacketLen - 3, Len(buf))), present |-> TRUE]

\* The two numbers the other way round.
IDErrorArgsSwapped(buf, packet_ID) == <<packet_ID, At(buf, 2)>>

\* "Bad packet ID. Got %d, expected %d" % (buf[2], self.packet_ID)
IDErrorArgs(buf, packet_ID) == <<At(buf, 2), packet_ID>>

\* get_packet with _check_checksum called before _check_ends.
GetPacketOnChecksumFirst(buf, packet_ID) ==
    IF CheckChecksum(buf) # "ok"
    THEN [calls |-> <<"_check_checksum">>, error |-> CheckChecksum(buf), packet |-> NoPacket, args |-> <<>>]
    ELSE IF CheckEnds(buf) # "ok"
    THEN [calls |-> <<"_check_checksum", "_check_ends">>,
          error |-> CheckEnds(buf), packet |-> NoPacket, args |-> <<>>]
    ELSE IF CheckID(buf, packet_ID) # "ok"
    THEN [calls |-> <<"_check_checksum", "_check_ends", "_check_ID">>,
          error |-> CheckID(buf, packet_ID), packet |-> NoPacket,
          args |-> IDErrorArgs(buf, packet_ID)]
    ELSE [calls |-> <<"_check_checksum", "_check_ends", "_check_ID", "_extract_packet_from">>,
          error |-> "none", packet |-> ExtractPacketFrom(buf), args |-> <<>>]

\* BTBase.get_packet after read_with_prompt has returned buf: the calls it
\* makes, in order, the exception that ends it ("none" when it returns) and
\* the packet it returns.
GetPacketOn(buf, packet_ID) ==
    IF CheckEnds(buf) # "ok"
    THEN [calls |-> <<"_check_ends">>, error |-> CheckEnds(buf), packet |-> NoPacket, args |-> <<>>]
    ELSE IF CheckChecksum(buf) # "ok"
    THEN [calls |-> <<"_check_ends", "_check_checksum">>,
          error |-> CheckChecksum(buf), packet |-> NoPacket, args |-> <<>>]
    ELSE IF CheckID(buf, packet_ID) # "ok"
    THEN [calls |-> <<"_check_ends", "_check_checksum", "_check_ID">>,
          error |-> CheckID(buf, packet_ID), packet |-> NoPacket,
          args |-> IDErrorArgs(buf, packet_ID)]
    ELSE [calls |-> <<"_check_ends", "_check_checksum", "_check_ID", "_extract_packet_from">>,
          error |-> "none", packet |-> ExtractPacketFrom(buf), args |-> <<>>]

\* get_packet() runs on buf: its outcome is recorded.
GetPacketRecord(buf) ==
    LET r == GetPacketOn(buf, PacketID)
    IN  /\ gp_buf' = buf
        /\ gp_calls' = r.calls
        /\ gp_result' = IF r.error = "none" THEN "packet" ELSE r.error
        /\ gp_packet' = r.packet
        /\ gp_args' = r.args

InitGp ==
    /\ gp_buf = <<>>
    /\ gp_calls = <<>>
    /\ gp_result = "none"
    /\ gp_packet = NoPacket
    /\ gp_args = <<>>
    /\ gp_reply = <<>>
    /\ fr_orig = <<>>
    /\ fr_pos = -1

(***************************************************************************)
(* The derivation of power and delta energy: augment_record, calc_power,   *)
(* calc_delta_energy and BrultechService.new_loop_packet.                  *)
(*                                                                         *)
(* A record is its dateTime and its other fields. A field name chN<mid>    *)
(* <tail> is the record of its three parts, e.g. ch2 "_a" "_energy2". A    *)
(* value is None or a number num/den: power is a quotient, and the model   *)
(* keeps numerator and denominator instead of a float. All records are in  *)
(* one unit system, in which weewx.units.convertStd returns its argument.  *)
(***************************************************************************)
None == [tag |-> "None", num |-> 0, den |-> 1]

Num(n) == [tag |-> "num", num |-> n, den |-> 1]

Quotient(n, d) == [tag |-> "num", num |-> n, den |-> d]

Name(ch, mid, tail) == [ch |-> ch, mid |-> mid, tail |-> tail]

NoFields == [n \in {} |-> None]

\* Python's None as a record, and a dictionary as a record
NoRecord == [present |-> FALSE, dateTime |-> 0, fields |-> NoFields]

Record(t, fields) == [present |-> TRUE, dateTime |-> t, fields |-> fields]

\* energy2_re = '^ch[0-9]+(_[ap])?_energy2$' on a name in three parts
Energy2Match(name) == name.tail = "_energy2" /\ name.mid \in {"", "_a", "_p"}

\* obs_type.replace('_energy2', '_power')
PowerNameOf(name) == IF name.tail = "_energy2" THEN [name EXCEPT !.tail = "_power"] ELSE name

\* obs_type.replace('_energy2', 'd_energy2')
DeltaNameOf(name) == IF name.tail = "_energy2" THEN [name EXCEPT !.tail = "d_energy2"] ELSE name

\* power_name.replace('_power', '_energy2')
EnergyOfPower(name) == IF name.tail = "_power" THEN [name EXCEPT !.tail = "_energy2"] ELSE name

\* delta_name.replace('d_energy2', '_energy2')
EnergyOfDelta(name) == IF name.tail = "d_energy2" THEN [name EXCEPT !.tail = "_energy2"] ELSE name

\* prev_record.get(name): None when the key is missing
Get(rec, name) == IF name \in DOMAIN rec.fields THEN rec.fields[name] ELSE None

\* The test without its last part: a previous value of None is used.
HasBothNoPrevCheck(e, record, prev_record) ==
    /\ record.fields[e] # None
    /\ prev_record.present

\* "record[energy2_name] is not None and prev_record and
\*  prev_record.get(energy2_name) is not None"
HasBoth(e, record, prev_record) ==
    /\ record.fields[e] # None
    /\ prev_record.present
    /\ Get(prev_record, e) # None

\* The difference taken the other way round.
EnergyDifferenceSwapped(now, before) == before - now

\* "record[energy2_name] - prev_record.get(energy2_name)"
EnergyDifference(now, before) == now - before

\* calc_power: the value of the ValueTuple it returns, or the exception of
\* the division.
CalcPower(power_name, record, prev_record) ==
    LET e == EnergyOfPower(power_name)
    IN  IF HasBoth(e, record, prev_record)
        THEN IF record.dateTime - prev_record.dateTime = 0
             THEN [error |-> "ZeroDivisionError", value |-> None]
             ELSE [error |-> "none",
                   value |-> Quotient(EnergyDifference(record.fields[e].num, Get(prev_record, e).num),
                                      record.dateTime - prev_record.dateTime)]
        ELSE [error |-> "none", value |-> None]

\* calc_delta_energy: the value of the ValueTuple it returns.
CalcDeltaEnergy(delta_name, record, prev_record) ==
    LET e == EnergyOfDelta(delta_name)
    IN  IF HasBoth(e, record, prev_record)
        THEN [error |-> "none",
              value |-> Num(EnergyDifference(record.fields[e].num, Get(prev_record, e).num))]
        ELSE [error |-> "none", value |-> None]

\* record[name] = value
WithField(record, name, value) == [record EXCEPT !.fields = (name :> value) @@ record.fields]

\* The body of the loop without the two tests "not in record": the power
\* and the delta energy are stored whatever the record holds.
AugmentKeyOverwrites(record, prev_record, obs_type) ==
    IF ~Energy2Match(obs_type) THEN [rec |-> record, error |-> "none"]
    ELSE
      LET p == CalcPower(PowerNameOf(obs_type), record, prev_record)
          d == CalcDeltaEnergy(DeltaNameOf(obs_type), record, prev_record)
      IN  IF p.error # "none" THEN [rec |-> record, error |-> p.error]
          ELSE [rec |-> WithField(WithField(record, PowerNameOf(obs_type), p.value),
                                  DeltaNameOf(obs_type), d.value),
                error |-> "none"]

\* The body of the loop of augment_record for the key obs_type: the record
\* it leaves and the exception that ended it, if any.
AugmentKey(record, prev_record, obs_type) ==
    IF ~Energy2Match(obs_type) THEN [rec |-> record, error |-> "none"]
    ELSE
      LET power_name == PowerNameOf(obs_type)
          delta_name == DeltaNameOf(obs_type)
          p == CalcPower(power_name, record, prev_record)
          d == CalcDeltaEnergy(delta_name, record, prev_record)
          r1 == IF power_name \in DOMAIN record.fields THEN record
                ELSE WithField(record, power_name, p.value)
          r2 == IF delta_name \in DOMAIN r1.fields THEN r1
                ELSE WithField(r1, delta_name, d.value)
      IN  IF power_name \notin DOMAIN record.fields /\ p.error # "none"
          THEN [rec |-> record, error |-> p.error]
          ELSE [rec |-> r2, error |-> "none"]

RECURSIVE AugmentKeys(_, _, _)
\* "for obs_type in list(record.keys())" over the keys still to visit
AugmentKeys(record, prev_record, keys) ==
    IF keys = <<>> THEN [rec |-> record, error |-> "none"]
    ELSE LET r == AugmentKey(record, prev_record, Head(keys))
         IN  IF r.error # "none" THEN r
             ELSE AugmentKeys(r.rec, prev_record, Tail(keys))

\* The channels of the model and the energy fields of a packet, in the order
\* in which the decoder puts them into the packet.
Channels == {1, 2}

KeyOrder == [i \in 1..Cardinality(Channels) |-> Name(i, "_a", "_energy2")]

\* list(record.keys()), as far as the energy fields go
Keys(record) == SelectSeq(KeyOrder, LAMBDA n : n \in DOMAIN record.fields)

\* augment_record(record, prev_record): the record as it leaves it and the
\* exception raised, if any.
AugmentRecord(record, prev_record) ==
    IF prev_record.present
    THEN AugmentKeys(record, prev_record, Keys(record))
    ELSE [rec |-> record, error |-> "none"]

\* The times and energy values of the packets of the model: two packets may
\* be 10 s apart, or further apart than the stale time, or of the same time.
SampleTimes == {0, 10, 10 + stale + 1}

EnergyValues == {Num(5), Num(EnergyModulus - 10)}

\* The packets that may come in: each channel's energy is missing, None or
\* a counter value.
Packets ==
    { Record(t, f) : t \in SampleTimes,
                     f \in UNION { [ks -> EnergyValues \cup {None}] :
                                   ks \in SUBSET { KeyOrder[i] : i \in DOMAIN KeyOrder } } }

InitDv ==
    /\ prev_packet = NoRecord
    /\ dv_prev = NoRecord
    /\ dv_in = NoRecord
    /\ dv_out = NoRecord
    /\ dv_error = "none"
    /\ dv_count = 0

\* No utility function has been called on its own.
InitFn ==
    /\ fn_in = <<>>
    /\ fn_out = <<>>

(***************************************************************************)
(* Specification of the validation of received buffers.                    *)
(***************************************************************************)
\* The byte values of the buffers of the model.
FrameBytes == {0, PacketID, 254, 255}

\* All byte strings of length n over FrameBytes
BytesOfLen(n) == [1..n -> FrameBytes]

\* The least number of bytes a read(len) that returns can return: each of
\* its at most DefaultMaxTries passes takes the length of the whole buffer
\* off remaining, so the buffer has at least a third of len.
MinReceived(len) == (len + DefaultMaxTries - 1) \div DefaultMaxTries

\* The lengths of the buffers read_with_prompt may return when asked for
\* len > 0 bytes.
ReceivedLengths(len) == MinReceived(len)..len

\* The last byte of a received buffer: any of FrameBytes or the checksum
\* of the bytes before it.
LastBytes(body) == FrameBytes \cup {LowByte(SumBytes(body))}

InitFrame ==
    /\ pc = "frame"
    /\ InitSock
    /\ InitRd
    /\ InitCmd
    /\ InitDrv
    /\ InitGp
    /\ InitDv
    /\ InitFn

\* get_packet() on a buffer as it came from read_with_prompt.
FrameReceive ==
    /\ pc = "frame"
    /\ gp_result = "none"
    /\ \E n \in ReceivedLengths(PacketLen) :
         \E body \in BytesOfLen(n - 1) :
           \E c \in LastBytes(body) : GetPacketRecord(Append(body, c))
    /\ UNCHANGED <<pc, sockVars, rdVars, cmdVars, drvVars, dvVars, fr_orig, fr_pos, gp_reply, fnVars>>

\* get_packet() on an accepted buffer of which one byte other than the
\* checksum has been changed on the way.
FrameCorrupt ==
    /\ pc = "frame"
    /\ gp_result = "packet"
    /\ fr_pos = -1
    /\ \E i \in 0..(Len(gp_buf) - 2), v \in FrameBytes :
         /\ v # At(gp_buf, i)
         /\ fr_orig' = gp_buf
         /\ fr_pos' = i
         /\ GetPacketRecord([gp_buf EXCEPT ![i + 1] = v])
    /\ UNCHANGED <<pc, sockVars, rdVars, cmdVars, drvVars, dvVars, fnVars, gp_reply>>

NextFrame ==
    \/ FrameReceive
    \/ FrameCorrupt

SpecFrame == InitFrame /\ [][NextFrame]_vars

(***************************************************************************)
(* Specification of one call of write_with_response().                     *)
(***************************************************************************)
\* The state at the first pass of the loop of a call with one of the
\* driver's prompts and any max_tries.
InitCmdCall ==
    /\ InitSock
    /\ InitRd
    /\ InitDrv
    /\ InitGp
    /\ InitDv
    /\ InitFn
    /\ \E c \in {SetupCommands(t)[i] : t \in PacketTypes, i \in 1..4}, m \in 1..MaxTries :
         /\ cmd_prompt = c.prompt
         /\ cmd_expected = c.expected
         /\ cmd_max = m
    /\ cmd_try = 0
    /\ cmd_writes = 0
    /\ cmd_hist = <<>>
    /\ cmd_status = "running"
    /\ cmd_ret = "cmd_done"
    /\ pc = "cmd_write"

NextCmd ==
    \/ CmdWrite
    \/ CmdWriteError
    \/ CmdPeek
    \/ ReadRecv
    \/ ReadRecvEOF
    \/ ReadRecvError
    \/ CmdReadFailed
    \/ CmdAccepted
    \/ CmdRejected
    \/ Arrive
    \/ PeerClose

SpecCmd == InitCmdCall /\ [][NextCmd]_vars

(***************************************************************************)
(* The driver: Brultech.__init__, which ends with Brultech.setup(), and    *)
(* the packet requests that follow (genLoopPackets).                       *)
(***************************************************************************)
APISPK == Prompt("^^^APISPK", <<>>)

\* self.packet_length of the packet classes; None (0 here) for GEMAscii.
\* Both binary classes have PacketLen bytes in the model.
PacketLength(ptype) == IF ptype = "GEMAscii" THEN 0 ELSE PacketLen

\* A frame of PacketLen bytes around the payload byte b, with its checksum.
FrameOf(id, b) ==
    LET body == <<254, 255, id>> \o [i \in 1..(PacketLen - 6) |-> b] \o <<255, 254>>
    IN  Append(body, LowByte(SumBytes(body)))

\* What the device may send on a packet request: a good frame, a frame of
\* another packet type, or nothing.
DevicePackets == {FrameOf(PacketID, 1), FrameOf(PacketID + 1, 1), <<>>}

\* "self.max_tries = to_int(bt_dict.get('max_tries', 3))": the values of the
\* option in the model, the default and one other.
ConfiguredTries == {DefaultMaxTries - 1, DefaultMaxTries}

\* setup() going on whatever became of the command, as if the exception
\* were caught and dropped.
SetupContinuesAlways(status) == TRUE

\* "self.setup()" continues after a write_with_response only if it returned.
SetupContinues(status) == status = "returned"

\* The call of write_with_response for the n-th command of setup().
SetupCommand(n) ==
    /\ stp' = n
    /\ CmdEnter(SetupCommands(packet_type)[n].prompt,
                SetupCommands(packet_type)[n].expected,
                DefaultMaxTries, "setup_ret")

\* Brultech.setup(): "self.source.flush_input()", then the first command.
SetupFlush ==
    /\ pc = "setup"
    /\ sock_queue' = Flushed(sock_queue)
    /\ log' = Logged(Event("flush", NoPrompt, <<>>))
    /\ SetupCommand(1)
    /\ UNCHANGED <<net, peer_closed, peer_sent, rdVars, packet_type, drv_max_tries, drv_error, polls, gpVars, dvVars, fnVars>>

\* The command was acknowledged: the next command of setup().
SetupNext ==
    /\ pc = "setup_ret"
    /\ SetupContinues(cmd_status)
    /\ stp < Len(SetupCommands(packet_type))
    /\ SetupCommand(stp + 1)
    /\ UNCHANGED <<sockVars, rdVars, packet_type, drv_max_tries, drv_error, polls, gpVars, dvVars, fnVars>>

\* The last command was acknowledged: setup() and __init__ return.
SetupDone ==
    /\ pc = "setup_ret"
    /\ SetupContinues(cmd_status)
    /\ stp = Len(SetupCommands(packet_type))
    /\ pc' = "ready"
    /\ UNCHANGED <<sockVars, rdVars, cmdVars, appVars>>

\* write_with_response raised: the exception leaves setup() and __init__.
SetupFail ==
    /\ pc = "setup_ret"
    /\ ~SetupContinues(cmd_status)
    /\ drv_error' = cmd_status
    /\ pc' = "failed"
    /\ UNCHANGED <<sockVars, rdVars, cmdVars, packet_type, drv_max_tries, stp, polls, gpVars, dvVars, fnVars>>

\* get_packet(): read_with_prompt writes the prompt; the device answers.
GpWrite ==
    /\ pc = "ready"
    /\ polls < MaxPolls
    /\ log' = Logged(Event("write", APISPK, <<>>))
    /\ \E reply \in DevicePackets :
         /\ reply # <<>> =>
              /\ ~peer_closed
              /\ Len(net) + Len(sock_queue) + Len(reply) <= MaxQueue + PacketLen
         /\ net' = net \o reply
         /\ gp_reply' = reply
         /\ UNCHANGED peer_sent
    /\ pc' = "gp_sleep"
    /\ UNCHANGED <<sock_queue, peer_closed, rdVars, cmdVars, drvVars, dvVars, fnVars>>
    /\ UNCHANGED <<gp_buf, gp_calls, gp_result, gp_packet, gp_args, fr_orig, fr_pos>>

\* genLoopPackets(): "packet = self.packet_obj.get_packet(); yield packet".
\* With a packet the generator is suspended at the yield and can be asked
\* again; an exception of get_packet leaves the generator function, and the
\* generator is finished.
AfterGetPacket(result) == IF result = "packet" THEN "ready" ELSE "gen_finished"

\* get_packet(): the write of the prompt raises WeeWxIOError.
GpWriteError ==
    /\ pc = "ready"
    /\ polls < MaxPolls
    /\ gp_buf' = <<>>
    /\ gp_calls' = <<>>
    /\ gp_result' = "WeeWxIOError"
    /\ gp_packet' = NoPacket
    /\ gp_args' = <<>>
    /\ polls' = polls + 1
    /\ pc' = AfterGetPacket("WeeWxIOError")
    /\ UNCHANGED <<sockVars, rdVars, cmdVars, packet_type, drv_max_tries, stp, drv_error, fr_orig, fr_pos, gp_reply, dvVars, fnVars>>

\* get_packet(): after the sleep read_with_prompt calls read(n).
GpRead ==
    /\ pc = "gp_sleep"
    /\ ReadEnter(PacketLength(packet_type), DefaultMaxTries, "gp_check")
    /\ UNCHANGED <<sockVars, cmdVars, appVars>>

\* get_packet(): read() raised, the exception leaves get_packet.
GpReadFailed ==
    /\ pc = "gp_check"
    /\ ReadLeave
    /\ rd_status # "returned"
    /\ gp_buf' = rd_buf
    /\ gp_calls' = <<>>
    /\ gp_result' = rd_status
    /\ gp_packet' = NoPacket
    /\ gp_args' = <<>>
    /\ polls' = polls + 1
    /\ pc' = AfterGetPacket(rd_status)
    /\ UNCHANGED <<sockVars, cmdVars, packet_type, drv_max_tries, stp, drv_error, fr_orig, fr_pos, gp_reply, dvVars, fnVars>>

\* BTBase.get_packet(): the buffer is checked and the packet extracted.
GpBinary ==
    /\ pc = "gp_check"
    /\ ReadLeave
    /\ rd_status = "returned"
    /\ packet_type # "GEMAscii"
    /\ GetPacketRecord(rd_buf)
    /\ polls' = polls + 1
    /\ pc' = AfterGetPacket(gp_result')
    /\ UNCHANGED <<sockVars, cmdVars, packet_type, drv_max_tries, stp, drv_error, fr_orig, fr_pos, gp_reply, dvVars, fnVars>>

\* GEMAscii.get_packet(): no check, the packet is extracted from whatever
\* was read (the key=value pairs are not modelled, the packet is the text).
GpAscii ==
    /\ pc = "gp_check"
    /\ ReadLeave
    /\ rd_status = "returned"
    /\ packet_type = "GEMAscii"
    /\ gp_buf' = rd_buf
    /\ gp_calls' = <<"_extract_packet_from">>
    /\ gp_result' = "packet"
    /\ gp_packet' = [payload |-> rd_buf, present |-> TRUE]
    /\ gp_args' = <<>>
    /\ polls' = polls + 1
    /\ pc' = AfterGetPacket("packet")
    /\ UNCHANGED <<sockVars, cmdVars, packet_type, drv_max_tries, stp, drv_error, fr_orig, fr_pos, gp_reply, dvVars, fnVars>>

\* next() on the finished generator: StopIteration, nothing is written.
GenNextStopped ==
    /\ pc = "gen_finished"
    /\ gp_result # "StopIteration"
    /\ gp_buf' = <<>>
    /\ gp_calls' = <<>>
    /\ gp_result' = "StopIteration"
    /\ gp_packet' = NoPacket
    /\ gp_args' = <<>>
    /\ UNCHANGED <<pc, sockVars, rdVars, cmdVars, drvVars, fr_orig, fr_pos, gp_reply, dvVars, fnVars>>

\* The state when Brultech.__init__ calls setup(): the connection is open,
\* the device may have sent something before.
Init ==
    /\ pc = "setup"
    /\ net \in {<<>>, StaleInput}
    /\ sock_queue = <<>>
    /\ peer_closed = FALSE
    /\ peer_sent = 0
    /\ log = <<>>
    /\ InitRd
    /\ InitCmd
    /\ packet_type \in PacketTypes
    /\ drv_max_tries \in ConfiguredTries
    /\ stp = 0
    /\ drv_error = "none"
    /\ polls = 0
    /\ InitGp
    /\ InitDv
    /\ InitFn

Next ==
    \/ SetupFlush
    \/ SetupNext
    \/ SetupDone
    \/ SetupFail
    \/ CmdWrite
    \/ CmdWriteError
    \/ CmdPeek
    \/ CmdReadFailed
    \/ CmdAccepted
    \/ CmdRejected
    \/ ReadExhausted
    \/ ReadRecv
    \/ ReadRecvEOF
    \/ ReadRecvError
    \/ GpWrite
    \/ GpWriteError
    \/ GpRead
    \/ GpReadFailed
    \/ GpBinary
    \/ GpAscii
    \/ GenNextStopped
    \/ Arrive
    \/ PeerClose

Spec == Init /\ [][Next]_vars

(***************************************************************************)
(* Specification of the derivation service.                                *)
(***************************************************************************)
InitDerive ==
    /\ pc = "service"
    /\ InitSock
    /\ InitRd
    /\ InitCmd
    /\ InitDrv
    /\ InitGp
    /\ InitDv
    /\ InitFn

\* new_loop_packet(event): augment_record returns and the packet is retained.
NewLoopPacket ==
    /\ pc = "service"
    /\ dv_count < MaxSamples
    /\ \E packet \in Packets :
         LET r == AugmentRecord(packet, prev_packet)
         IN  /\ r.error = "none"
             /\ dv_in' = packet
             /\ dv_out' = r.rec
             /\ dv_error' = "none"
             /\ prev_packet' = r.rec
    /\ dv_prev' = prev_packet
    /\ dv_count' = dv_count + 1
    /\ UNCHANGED <<pc, sockVars, rdVars, cmdVars, drvVars, gpVars, fnVars>>

\* new_loop_packet(event): augment_record raises; the assignment to
\* self.prev_packet is not reached.
NewLoopPacketRaises ==
    /\ pc = "service"
    /\ dv_count < MaxSamples
    /\ \E packet \in Packets :
         LET r == AugmentRecord(packet, prev_packet)
         IN  /\ r.error # "none"
             /\ dv_in' = packet
             /\ dv_out' = r.rec
             /\ dv_error' = r.error
    /\ dv_prev' = prev_packet
    /\ dv_count' = dv_count + 1
    /\ UNCHANGED <<pc, sockVars, rdVars, cmdVars, drvVars, gpVars, fnVars, prev_packet>>

NextDerive ==
    \/ NewLoopPacket
    \/ NewLoopPacketRaises

SpecDerive == InitDerive /\ [][NextDerive]_vars

(***************************************************************************)
(* Specification of a stand-alone call of read().                          *)
(***************************************************************************)
InitRead ==
    /\ pc = "idle"
    /\ InitSock
    /\ InitRd
    /\ InitCmd
    /\ InitDrv
    /\ InitGp
    /\ InitDv
    /\ InitFn

\* The caller invokes read(chars, max_tries).
ReadCall ==
    /\ pc = "idle"
    /\ \E chars \in 0..MaxChars, max_tries \in 1..MaxTries :
         ReadEnter(chars, max_tries, "read_done")
    /\ UNCHANGED <<sockVars, cmdVars, appVars>>

NextRead ==
    \/ ReadCall
    \/ ReadExhausted
    \/ ReadRecv
    \/ ReadRecvEOF
    \/ ReadRecvError
    \/ PeerSend
    \/ Arrive
    \/ PeerClose

SpecRead == InitRead /\ [][NextRead]_vars

(***************************************************************************)
(* Claims about read().                                                    *)
(***************************************************************************)
\* C1: for chars > 0, a read() that returns normally returns exactly chars
\* bytes, however the bytes were split over the recv calls.
C1_ReadReturnsExactly ==
    (pc = "read_done" /\ rd_status = "returned" /\ rd_chars > 0)
        => Len(rd_buf) = rd_chars

(***************************************************************************)
(* Claims about write_with_response().                                     *)
(***************************************************************************)
\* C2: write_with_response writes the prompt once per try; it returns at the
\* first try whose response is the expected one, after exactly that many
\* writes, and raises RetriesExceeded after exactly max_tries writes when no
\* response was the expected one; it never writes more than max_tries times.
C2_WritesPerTry ==
    /\ cmd_writes <= cmd_max
    /\ Len(cmd_hist) <= cmd_writes
    /\ \A j \in 1..Len(cmd_hist) :
         cmd_hist[j] => (j = Len(cmd_hist) /\ cmd_writes = j /\ cmd_status = "returned")
    /\ cmd_status = "returned" =>
         (cmd_hist # <<>> /\ cmd_hist[Len(cmd_hist)] /\ cmd_writes = Len(cmd_hist))
    /\ cmd_status = "RetriesExceeded" =>
         (cmd_writes = cmd_max /\ Len(cmd_hist) = cmd_max
          /\ \A j \in 1..Len(cmd_hist) : ~cmd_hist[j])

\* A call that was acknowledged at its second try.
C2_Witness == cmd_status = "returned" /\ cmd_writes = 2 /\ cmd_max = 3

(***************************************************************************)
(* Claims about the validation of frames.                                  *)
(***************************************************************************)
MarkersValid(buf) ==
    /\ Len(buf) >= 3
    /\ buf[1] = 254 /\ buf[Len(buf) - 1] = 254
    /\ buf[2] = 255 /\ buf[Len(buf) - 2] = 255

ChecksumValid(buf) ==
    /\ Len(buf) >= 1
    /\ buf[Len(buf)] = SumBytes(SubSeq(buf, 1, Len(buf) - 1)) % 256

IdentifierValid(buf) == Len(buf) >= 3 /\ buf[3] = PacketID

\* The header and footer positions of a buffer, counted from 0
MarkerPositions(buf) == {0, 1, Len(buf) - 3, Len(buf) - 2}

\* C3: get_packet returns a packet only for a buffer that passes the header
\* and footer check, the checksum check and the identifier check, all three
\* called before _extract_packet_from; when a check fails,
\* _extract_packet_from is not called and no packet is produced.
C3_PacketOnlyAfterChecks ==
    /\ gp_result = "packet" =>
         /\ MarkersValid(gp_buf) /\ ChecksumValid(gp_buf) /\ IdentifierValid(gp_buf)
         /\ gp_calls = <<"_check_ends", "_check_checksum", "_check_ID", "_extract_packet_from">>
         /\ gp_packet.present
    /\ gp_result \notin {"none", "packet"} =>
         /\ \A i \in 1..Len(gp_calls) : gp_calls[i] # "_extract_packet_from"
         /\ gp_packet = NoPacket
    /\ (gp_result # "none" /\ ~(MarkersValid(gp_buf) /\ ChecksumValid(gp_buf) /\ IdentifierValid(gp_buf)))
         => gp_result # "packet"

\* A full-length buffer with good markers and a bad checksum was rejected.
C3_Witness ==
    /\ gp_result = "Bad checksum"
    /\ Len(gp_buf) = PacketLen
    /\ MarkersValid(gp_buf)
    /\ IdentifierValid(gp_buf)

\* C4 as stated: a buffer with valid markers, identifier and checksum is
\* accepted, and changing any one byte other than the checksum makes
\* get_packet fail with the checksum error.
C4_AnyChangeIsChecksumError ==
    /\ (gp_result # "none" /\ MarkersValid(gp_buf) /\ ChecksumValid(gp_buf) /\ IdentifierValid(gp_buf))
         => gp_result = "packet"
    /\ fr_pos >= 0 => gp_result = "Bad checksum"

\* C4 as amended: a buffer with valid markers, identifier and checksum is
\* accepted; changing any one byte other than the checksum makes get_packet
\* fail, with the header/footer error when the byte is one of the four
\* marker bytes and with the checksum error otherwise (the identifier byte
\* included).
C4_ChangeIsRejected ==
    /\ (gp_result # "none" /\ MarkersValid(gp_buf) /\ ChecksumValid(gp_buf) /\ IdentifierValid(gp_buf))
         => gp_result = "packet"
    /\ fr_pos >= 0 =>
         gp_result = IF fr_pos \in MarkerPositions(fr_orig)
                     THEN "Bad header or footer"
                     ELSE "Bad checksum"

\* A marker byte of an accepted full-length buffer was changed.
C4_Witness ==
    /\ fr_pos \in MarkerPositions(fr_orig)
    /\ Len(fr_orig) = PacketLen
    /\ gp_result = "Bad header or footer"

(***************************************************************************)
(* Claims about start-up.                                                  *)
(***************************************************************************)
\* The packet format number of SYSPKT as its two digits
C5_FormatDigits(ptype) ==
    CASE ptype = "GEMBin48NetTime" -> <<0, 4>>
      [] ptype = "GEMBin48Net" -> <<0, 5>>
      [] ptype = "GEMAscii" -> <<0, 2>>

\* The order of start-up, each prompt followed by its acknowledgement, then
\* the packet requests.
C5_Order(ptype) ==
    << Event("flush", NoPrompt, <<>>),
       Event("write", Prompt("^^^SYSOFF", <<>>), <<>>),
       Event("ack", Prompt("^^^SYSOFF", <<>>), <<79, 70, 70, 13, 10>>),
       Event("write", Prompt("^^^SYSKAI0", <<>>), <<>>),
       Event("ack", Prompt("^^^SYSKAI0", <<>>), <<79, 75, 13, 10>>),
       Event("write", Prompt("^^^TMPDGC", <<>>), <<>>),
       Event("ack", Prompt("^^^TMPDGC", <<>>), <<67>>),
       Event("write", Prompt("^^^SYSPKT", C5_FormatDigits(ptype)), <<>>),
       Event("ack", Prompt("^^^SYSPKT", C5_FormatDigits(ptype)), <<80, 75, 84, 13, 10>>),
       Event("write", Prompt("^^^APISPK", <<>>), <<>>) >>

\* C5: what start-up writes and gets acknowledged is, at any time, a prefix
\* of: flush, SYSOFF and its OFF, SYSKAI0 and its OK, TMPDGC and its C,
\* SYSPKT<NN> and its PKT, and only then APISPK (retries of a prompt count
\* once).
C5_StartupOrder ==
    /\ Len(log) <= Len(C5_Order(packet_type))
    /\ \A i \in 1..Len(log) : log[i] = C5_Order(packet_type)[i]

\* Start-up is through and a packet has been requested.
C5_Witness == pc = "ready" /\ polls > 0 /\ Len(log) = 10

\* Start-up has met an exception of one of its commands.
SetupBroken == pc = "failed" \/ (pc = "setup_ret" /\ cmd_status # "returned")

\* C6: once a start-up command has ended in an exception (its
\* acknowledgement still wrong after the retries, or an I/O error), start-up
\* is over: the exception is the outcome of __init__, no further command
\* and no packet request is written, and setup is not begun again.
C6_StartupFailureIsFinal ==
    [][ /\ SetupBroken => (SetupBroken' /\ log' = log /\ stp' = stp)
        /\ pc' = "failed" =>
             /\ drv_error' = cmd_status' /\ cmd_status' \in {"RetriesExceeded", "WeeWxIOError"}
             /\ \A i \in 1..Len(log') :
                  /\ log'[i] # Event("write", Prompt("^^^APISPK", <<>>), <<>>)
                  /\ log'[i].ev = "write" =>
                       \E n \in 1..stp' : log'[i].prompt.cmd = C5_Order(packet_type)[2 * n].prompt.cmd
      ]_vars

\* The third command was given up after its retries; the fourth was never
\* written.
C6_Witness ==
    /\ pc = "failed"
    /\ drv_error = "RetriesExceeded"
    /\ stp = 3
    /\ cmd_writes = 3

(***************************************************************************)
(* Claims about the derivation.                                            *)
(***************************************************************************)
\* The names of the fields derived from the energy field k
C7_PowerName(k) == Name(k.ch, k.mid, "_power")

C7_DeltaName(k) == Name(k.ch, k.mid, "d_energy2")

\* The energy fields of the last packet
EnergyFieldsIn(rec) == { k \in DOMAIN rec.fields : k.tail = "_energy2" }

\* No usable previous value of k is retained.
Cold(k) ==
    \/ ~dv_prev.present
    \/ k \notin DOMAIN dv_prev.fields
    \/ dv_prev.fields[k] = None

\* The fields augment_record added to the last packet
Added == DOMAIN dv_out.fields \ DOMAIN dv_in.fields

\* Both packets have a number for k.
Warm(k) ==
    /\ dv_prev.present
    /\ k \in DOMAIN dv_prev.fields
    /\ dv_prev.fields[k] # None
    /\ dv_in.fields[k] # None

Elapsed == dv_in.dateTime - dv_prev.dateTime

C8_WrapAddsModulus ==
    (dv_count > 0 /\ dv_prev.present /\ Elapsed > 0) =>
        \A k \in EnergyFieldsIn(dv_in) :
            (Warm(k) /\ dv_in.fields[k].num < dv_prev.fields[k].num) =>
                LET delta == dv_in.fields[k].num - dv_prev.fields[k].num + EnergyModulus
                IN  /\ dv_error = "none"
                    /\ C7_DeltaName(k) \in DOMAIN dv_out.fields
                    /\ dv_out.fields[C7_DeltaName(k)] = Num(delta)
                    /\ delta >= 0
                    /\ C7_PowerName(k) \in DOMAIN dv_out.fields
                    /\ dv_out.fields[C7_PowerName(k)].tag = "num"
                    /\ dv_out.fields[C7_PowerName(k)].num * Elapsed
                         = delta * dv_out.fields[C7_PowerName(k)].den

\* C9: when the retained packet is older than the stale time, no power and
\* no delta energy is put into the new packet for a channel that has a value
\* in both packets, and the new packet is the one retained afterwards.
C9_StaleGivesNothing ==
    (dv_count > 0 /\ dv_prev.present /\ Elapsed > stale) =>
        /\ \A k \in EnergyFieldsIn(dv_in) :
             Warm(k) =>
                 /\ C7_PowerName(k) \notin DOMAIN dv_out.fields
                 /\ C7_DeltaName(k) \notin DOMAIN dv_out.fields
        /\ prev_packet = dv_out

\* C10: when the new packet is not later than the retained one, the
\* derivation raises nothing, puts no power and no delta energy into the new
\* packet for a channel that has a value in both packets, and the new packet
\* is the one retained afterwards.
C10_NoTimeGivesNothing ==
    (dv_count > 0 /\ dv_prev.present /\ Elapsed <= 0) =>
        /\ dv_error = "none"
        /\ \A k \in EnergyFieldsIn(dv_in) :
             Warm(k) =>
                 /\ C7_PowerName(k) \notin DOMAIN dv_out.fields
                 /\ C7_DeltaName(k) \notin DOMAIN dv_out.fields
        /\ prev_packet = dv_out

\* C11: after every call of new_loop_packet, whether augment_record
\* returned or raised, the packet retained is the packet just processed.
C11_RetainedIsProcessed ==
    dv_count > 0 => prev_packet = dv_out

PromptWritten ==
    \/ pc = "cmd_write" /\ pc' = "cmd_sleep"
    \/ pc = "ready" /\ pc' = "gp_sleep"

\* Bytes the device sent in answer to a prompt are still on their way or
\* queued at the socket (input from before the first prompt is no answer).
ResponsePending ==
    \E i \in 1..Len(net \o sock_queue) : (net \o sock_queue)[i] # 33

\* C13: no prompt is written while bytes of the response to an earlier
\* prompt have not been received and consumed.
C13_OneInFlight ==
    [][PromptWritten => ~ResponsePending]_vars

\* C14: a failed packet request does not end the packet generator: the
\* generator is never finished, and asking it for the next packet never
\* ends in StopIteration.
C14_FailureKeepsGenerator ==
    /\ pc # "gen_finished"
    /\ gp_result # "StopIteration"

\* C15: a packet is returned by a binary decoder only for a buffer of the
\* full length of the format, and then holds all the payload bytes; a
\* shorter buffer ends in an error.
C15_PacketOnlyFromFullBuffer ==
    gp_result = "packet" =>
        /\ Len(gp_buf) = PacketLen
        /\ Len(gp_packet.payload) = PacketLen - 6

(***************************************************************************)
(* Claims about the retry budget of read().                                *)
(***************************************************************************)
\* C16: a read(chars, max_tries) with chars > 0 that raises RetriesExceeded
\* has made exactly max_tries calls of recv before; in particular, when every
\* recv returned zero bytes and max_tries is 3, it has made 3, and the buffer
\* whose length the exception reports is empty.
C16_RecvsBeforeFailure ==
    (pc = "read_done" /\ rd_status = "RetriesExceeded") =>
        /\ rd_chars > 0
        /\ rd_recvs = rd_max
        /\ rd_attempt = rd_max + 1

\* Every recv returned zero bytes and read(chars, 3) gave up after 3 of them.
C16_Witness ==
    /\ pc = "read_done"
    /\ rd_status = "RetriesExceeded"
    /\ rd_chars > 0
    /\ rd_max = 3
    /\ rd_recvs = 3
    /\ rd_buf = <<>>

(***************************************************************************)
(* Claims about the acknowledgement of a command.                          *)
(***************************************************************************)
\* write_with_response compares the response of a try in this step.
TryJudged == pc = "cmd_check" /\ rd_status = "returned" /\ pc' # "cmd_check"

\* C17 as stated: a try whose response contains the expected acknowledgement
\* as a substring succeeds, whatever bytes surround it.
C17_SubstringAccepted ==
    [][(TryJudged /\ Contains(rd_buf, cmd_expected)) => cmd_status' = "returned"]_vars

\* C17 as amended: a try succeeds exactly when the bytes read are the
\* expected acknowledgement and nothing else; a response that holds the
\* acknowledgement together with other bytes counts as a mismatch, and the
\* prompt is written again or, at the last try, RetriesExceeded is raised.
C17_ExactlyExpectedAccepted ==
    [][TryJudged =>
         /\ (cmd_status' = "returned") <=> (rd_buf = cmd_expected)
         /\ (rd_buf # cmd_expected) =>
              /\ cmd_try' = cmd_try + 1
              /\ IF cmd_try + 1 < cmd_max
                 THEN pc' = "cmd_write" /\ cmd_status' = "running"
                 ELSE pc' = cmd_ret /\ cmd_status' = "RetriesExceeded"
      ]_vars

\* The second try has read the end of the first answer followed by the
\* whole acknowledgement of the second.
C17_Witness ==
    /\ pc = "cmd_check"
    /\ rd_status = "returned"
    /\ cmd_writes = 2
    /\ cmd_expected # <<>>
    /\ Contains(rd_buf, cmd_expected)
    /\ rd_buf # cmd_expected

C19_ConfiguredBudget ==
    /\ rd_recvs <= drv_max_tries
    /\ cmd_writes <= drv_max_tries
    /\ rd_status = "RetriesExceeded" => rd_recvs = drv_max_tries
    /\ cmd_status = "RetriesExceeded" => cmd_writes = drv_max_tries

(***************************************************************************)
(* Claims about the header and footer check.                               *)
(***************************************************************************)
\* C20: the header and footer check lets a received buffer pass exactly when
\* its bytes 0 and next-to-last are 0xFE and its bytes 1 and third-from-last
\* are 0xFF; every other buffer ends in the framing error, whatever its
\* checksum and identifier.
C20_MarkersDecide ==
    gp_result # "none" =>
        /\ Len(gp_buf) >= 3
        /\ (gp_result = "Bad header or footer")
             <=> ~(/\ gp_buf[1] = 254 /\ gp_buf[Len(gp_buf) - 1] = 254
                   /\ gp_buf[2] = 255 /\ gp_buf[Len(gp_buf) - 2] = 255)
        /\ (gp_result = "Bad header or footer") <=> (gp_calls = <<"_check_ends">>)
        /\ gp_result # "IndexError"

\* A buffer with a good header, checksum and identifier and a bad footer was
\* rejected.
C20_Witness ==
    /\ gp_result = "Bad header or footer"
    /\ Len(gp_buf) = PacketLen
    /\ gp_buf[1] = 254 /\ gp_buf[2] = 255
    /\ gp_buf[Len(gp_buf) - 1] # 254
    /\ ChecksumValid(gp_buf)
    /\ IdentifierValid(gp_buf)

\* A binary buffer that reaches the checks has at least three bytes.
ChecksSeeThreeBytes ==
    gp_calls # <<>> /\ packet_type # "GEMAscii" => Len(gp_buf) >= 3

(***************************************************************************)
(* The packet utilities, called on their own.                              *)
(***************************************************************************)
\* a[::-1]
Reversed(a) == [i \in 1..Len(a) |-> a[Len(a) + 1 - i]]

RECURSIVE UnpackLoop(_, _)
\* The for loop of brultech.unpack over the bytes bs: "total <<= 8" and
\* "total += b" for each of them.
UnpackLoop(bs, total) ==
    IF bs = <<>> THEN total
    ELSE UnpackLoop(Drop(bs, 1), (total * 2^8) + bs[1])

\* unpack that takes the bytes in the order of the buffer.
unpackBigEndian(a) == UnpackLoop(a, 0)

\* brultech.unpack
unpack(a) == UnpackLoop(Reversed(a), 0)

RECURSIVE ShiftedLeft(_, _)
\* x*(1<<(8*i)): x moved 8 bits to the left i times (a zero byte of a wide
\* field stays zero, whatever its index).
ShiftedLeft(x, i) == IF i = 0 THEN x ELSE ShiftedLeft(x * 2^8, i - 1)

RECURSIVE GemReduce(_, _, _)
\* reduce(lambda s, x: s + x[1]*(1<<(8*x[0])), enumerate(a), 0), from the
\* element of index i on.
GemReduce(a, i, s) ==
    IF i >= Len(a) THEN s
    ELSE GemReduce(a, i + 1, s + ShiftedLeft(a[i + 1], i))

\* gem_driver.unpack
gem_unpack(a) == GemReduce(a, 0, 0)

\* The byte values of the arguments of unpack().
UnpackBytes == {0, 1, 127, 128, 255}

\* k zero bytes
Zeros(k) == [i \in 1..k |-> 0]

\* The arguments of unpack(): up to UnpackWidth bytes, those after the first
\* MaxUnpackLen zero (a counter below 256^MaxUnpackLen in a wider field).
UnpackArgs ==
    UNION { { low \o Zeros(k) : k \in 0..(UnpackWidth - Len(low)) } :
            low \in UNION { [1..n -> UnpackBytes] : n \in 0..MaxUnpackLen } }

InitUnpack ==
    /\ pc = "unpack"
    /\ InitSock
    /\ InitRd
    /\ InitCmd
    /\ InitDrv
    /\ InitGp
    /\ InitDv
    /\ fn_in \in UnpackArgs
    /\ fn_out = <<>>

\* Both implementations are called on the same argument.
UnpackCall ==
    /\ pc = "unpack"
    /\ pc' = "unpacked"
    /\ fn_out' = [brultech |-> unpack(fn_in), gem_driver |-> gem_unpack(fn_in)]
    /\ UNCHANGED <<fn_in, sockVars, rdVars, cmdVars, drvVars, gpVars, dvVars>>

NextUnpack ==
    \/ UnpackCall

SpecUnpack == InitUnpack /\ [][NextUnpack]_vars

(***************************************************************************)
(* Claims about unpack.                                                    *)
(***************************************************************************)
RECURSIVE WithoutDigits(_, _)
\* The number v without its n lowest base-256 digits: v \div 256^n.
WithoutDigits(v, n) == IF n = 0 THEN v ELSE WithoutDigits(v \div 256, n - 1)

Float(neg, halves) == [neg |-> neg, halves |-> halves]

\* "-t"
Negated(t) == Float(~t.neg, t.halves)

\* "abs(t)"
Abs(t) == Float(FALSE, t.halves)

\* _mktemperature that reads the two bytes as a two's complement number.
mktemperatureTwosComplement(b) ==
    IF b[2] >= 128
    THEN Float(TRUE, 65536 - (b[2] * 2^8 + b[1]))
    ELSE Float(FALSE, b[2] * 2^8 + b[1])

\* _mktemperature: "t = ((b[1] & 0x7f) << 8 | b[0]) / 2.0", then "t = -t"
\* when "b[1] & 0x80". The low 8 bits of the shifted value are zero and b[0]
\* is a byte, so the bitwise or adds b[0].
mktemperature(b) ==
    LET t == Float(FALSE, ((b[2] % 128) * 2^8) + b[1])
    IN  IF (b[2] \div 128) % 2 = 1 THEN Negated(t) ELSE t

InitTemp ==
    /\ pc = "mktemperature"
    /\ InitSock
    /\ InitRd
    /\ InitCmd
    /\ InitDrv
    /\ InitGp
    /\ InitDv
    /\ fn_in \in [1..2 -> 0..255]
    /\ fn_out = <<>>

TempCall ==
    /\ pc = "mktemperature"
    /\ pc' = "decoded"
    /\ fn_out' = mktemperature(fn_in)
    /\ UNCHANGED <<fn_in, sockVars, rdVars, cmdVars, drvVars, gpVars, dvVars>>

NextTemp ==
    \/ TempCall

SpecTemp == InitTemp /\ [][NextTemp]_vars

(***************************************************************************)
(* Claims about _mktemperature.                                            *)
(***************************************************************************)
\* C22: the temperature decoded from byte0, byte1 has the sign bit exactly
\* when byte1 is 128 or more, and its magnitude in halves has byte0 as its
\* low byte and the low seven bits of byte1 above it; (0x64, 0x00) decodes
\* to +50.0 and (0x64, 0x80) to -50.0.
C22_SignedMagnitude ==
    pc = "decoded" =>
        /\ fn_out.neg <=> fn_in[2] >= 128
        /\ fn_out.halves % 256 = fn_in[1]
        /\ fn_out.halves \div 256 = (IF fn_in[2] >= 128 THEN fn_in[2] - 128 ELSE fn_in[2])
        /\ fn_in = <<100, 0>> => fn_out = Float(FALSE, 2 * 50)
        /\ fn_in = <<100, 128>> => fn_out = Float(TRUE, 2 * 50)

\* (0x64, 0x80) was decoded to -50.0.
C22_Witness ==
    /\ pc = "decoded"
    /\ fn_in = <<100, 128>>
    /\ fn_out = Float(TRUE, 100)

(***************************************************************************)
(* The decoding of a binary packet: GEMBin48Net._extract_packet_from and   *)
(* GEMBin48NetTime._extract_packet_from.                                   *)
(*                                                                         *)
(* The packet is a function from field names to values. A plain key such   *)
(* as ser_no is the name of channel 0 with that tail. An integer is        *)
(* Num(n), a float that came from a division is Quotient(n, d), a          *)
(* temperature is a Float, the serial is its string of decimal digits.     *)
(***************************************************************************)
\* The offsets of the fields, as in the code when NumSlots is 48.
VoltOffset == 3
AbsOffset == 5
PolOffset == AbsOffset + 5 * NumSlots
SerOffset == PolOffset + 5 * NumSlots
UnitOffset == SerOffset + 3
AmpOffset == SerOffset + 4
SecsOffset == AmpOffset + 2 * NumSlots
PulseOffset == SecsOffset + 3
TempOffset == PulseOffset + 3 * NumPulses
TimeOffset == TempOffset + 2 * NumTemps

\* packet_length of GEMBin48Net (619) and of GEMBin48NetTime (625)
BinLength == TimeOffset + 3
BinTimeLength == TimeOffset + 9

\* buf[a:b] and buf[a:] of Python, for 0 <= a <= b
PySlice(buf, a, b) == SubSeq(buf, a + 1, Min(b, Len(buf)))

PyFrom(buf, a) == SubSeq(buf, a + 1, Len(buf))

Key(name) == Name(0, "", name)

\* An empty dictionary
EmptyDict == [k \in {} |-> Num(0)]

\* d.update(e)
Updated(d, e) == [k \in DOMAIN d \cup DOMAIN e |-> IF k \in DOMAIN e THEN e[k] ELSE d[k]]

\* extract_seq(buf, N, nbyte, tag), the tag 'ch%d<mid><tail>'
extract_seq(buf, N, nbyte, mid, tail) ==
    [k \in { Name(i + 1, mid, tail) : i \in 0..(N - 1) } |->
        Num(unpack(PySlice(buf, (k.ch - 1) * nbyte, (k.ch - 1) * nbyte + nbyte)))]

\* struct.unpack('<H', b)[0]: the two bytes taken least significant first.
LittleEndianShort(b) == b[2] * 2^8 + b[1]

\* struct.unpack('>H', b)[0] for two bytes b
BigEndianShort(b) == b[1] * 2^8 + b[2]

RECURSIVE DecimalDigits(_, _)
\* '%0<width>d' % n: the decimal digits of n, at least width of them
DecimalDigits(n, width) ==
    IF n < 10 /\ width <= 1 THEN <<n>>
    ELSE Append(DecimalDigits(n \div 10, width - 1), n % 10)

\* '%d%d' % (unit_id, ser_no): the two numbers without padding.
FormatSerialUnpadded(unit_id, ser_no) ==
    DecimalDigits(unit_id, 1) \o DecimalDigits(ser_no, 1)

\* '%03d%05d' % (unit_id, ser_no)
FormatSerial(unit_id, ser_no) ==
    DecimalDigits(unit_id, 3) \o DecimalDigits(ser_no, 5)

\* The temperatures that are kept: "if abs(t) <= 255", for every channel.
TemperaturesKeepAll(byte_buf) ==
    [k \in { Name(i + 1, "", "_temperature") : i \in 0..(NumTemps - 1) } |->
        mktemperature(PyFrom(byte_buf, TempOffset + 2 * (k.ch - 1)))]

\* The loop over the temperatures: channel i + 1 is set when abs(t) <= 255.
Temperatures(byte_buf) ==
    [k \in { Name(i + 1, "", "_temperature") :
               i \in { j \in 0..(NumTemps - 1) :
                   Abs(mktemperature(PyFrom(byte_buf, TempOffset + 2 * j))).halves <= 2 * 255 } } |->
        mktemperature(PyFrom(byte_buf, TempOffset + 2 * (k.ch - 1)))]

\* The exception GEMBin48Net._extract_packet_from raises on byte_buf, if any:
\* struct.unpack on a slice that is not 2 bytes long, an index beyond the
\* buffer. (The slices handed to unpack() may be short or empty.)
ExtractError(byte_buf) ==
    IF Len(PySlice(byte_buf, VoltOffset, VoltOffset + 2)) # 2 THEN "struct.error"
    ELSE IF Len(PySlice(byte_buf, SerOffset, SerOffset + 2)) # 2 THEN "struct.error"
    ELSE IF ~HasIndex(byte_buf, UnitOffset) THEN "IndexError"
    ELSE IF \E i \in 0..(NumTemps - 1) : Len(PyFrom(byte_buf, TempOffset + 2 * i)) < 2
         THEN "IndexError"
    ELSE "none"

\* GEMBin48Net._extract_packet_from on a buffer it raises no exception on,
\* at the time now, with max_channels channels.
ExtractBin48Net(byte_buf, max_channels, now) ==
    LET ser_no == BigEndianShort(PySlice(byte_buf, SerOffset, SerOffset + 2))
        unit_id == At(byte_buf, UnitOffset)
        packet == (Key("dateTime") :> Num(now)) @@
                  (Key("usUnits") :> "METRICWX") @@
                  (Name(1, "", "_volt") :>
                      Quotient(BigEndianShort(PySlice(byte_buf, VoltOffset, VoltOffset + 2)), 10)) @@
                  (Key("ser_no") :> Num(ser_no)) @@
                  (Key("unit_id") :> Num(unit_id)) @@
                  (Key("secs") :> Num(unpack(PySlice(byte_buf, SecsOffset, SecsOffset + 3)))) @@
                  (Key("serial") :> FormatSerial(unit_id, ser_no))
        aws == extract_seq(PyFrom(byte_buf, AbsOffset), max_channels, 5, "_a", "_energy2")
        pws == extract_seq(PyFrom(byte_buf, PolOffset), max_channels, 5, "_p", "_energy2")
        raw == extract_seq(PyFrom(byte_buf, AmpOffset), max_channels, 2, "", "_amp")
        current == [x \in DOMAIN raw |-> Quotient(raw[x].num, 50)]
        pulse == extract_seq(PyFrom(byte_buf, PulseOffset), NumPulses, 3, "", "_count")
    IN  Updated(Updated(Updated(Updated(Updated(packet, aws), pws), current), pulse),
                Temperatures(byte_buf))

(***************************************************************************)
(* The buffers the decoders are called on: valid packets of the device,    *)
(* laid out field by field from the values they carry.                     *)
(***************************************************************************)
RECURSIVE LittleEndian(_, _)
\* The w bytes of a counter v, least significant first
LittleEndian(v, w) == IF w = 0 THEN <<>> ELSE <<v % 256>> \o LittleEndian(v \div 256, w - 1)

\* The two bytes of v, most significant first
BigEndian(v) == <<v \div 256, v % 256>>

RECURSIVE Flattened(_)
\* The byte strings of a sequence, one after the other
Flattened(ss) == IF ss = <<>> THEN <<>> ELSE ss[1] \o Flattened(Drop(ss, 1))

\* The bytes of a packet up to the footer: the header, the identifier and
\* the fields of v at their offsets (the byte before unit_id is not used).
PacketBody(v) ==
    <<254, 255, PacketID>> \o BigEndian(v.volt)
    \o Flattened([i \in 1..NumSlots |-> LittleEndian(v.aws[i], 5)])
    \o Flattened([i \in 1..NumSlots |-> LittleEndian(v.pws[i], 5)])
    \o BigEndian(v.ser_no) \o <<0, v.unit_id>>
    \o Flattened([i \in 1..NumSlots |-> LittleEndian(v.amps[i], 2)])
    \o LittleEndian(v.secs, 3)
    \o Flattened([i \in 1..NumPulses |-> LittleEndian(v.pulses[i], 3)])
    \o Flattened(v.temps)
    \o v.time

\* The packet carrying the values v: body, footer and checksum.
BuiltPacket(v) ==
    LET b == PacketBody(v) \o <<255, 254>>
    IN  Append(b, LowByte(SumBytes(b)))

\* Values of a packet with nothing connected.
IdleValues ==
    [volt |-> 1205, ser_no |-> 258, unit_id |-> 7, secs |-> 66000,
     aws |-> [i \in 1..NumSlots |-> 0], pws |-> [i \in 1..NumSlots |-> 0],
     amps |-> [i \in 1..NumSlots |-> 0], pulses |-> [i \in 1..NumPulses |-> 0],
     temps |-> [i \in 1..NumTemps |-> <<0, 0>>], time |-> <<>>]

\* The byte pairs of a temperature channel: -50.0, 255.0 and the 255.5 of a
\* channel without a sensor.
TempSamples == {<<100, 128>>, <<254, 1>>, <<255, 1>>}

\* A call of _extract_packet_from: the values the packet carries, the packet,
\* the configured packet_type and max_channels, and time.time().
DecodeCallOf(v, type, max_channels, now) ==
    [values |-> v, byte_buf |-> BuiltPacket(v), packet_type |-> type,
     max_channels |-> max_channels, now |-> now]

\* Packets of GEMBin48Net that differ in their temperatures.
TempCalls ==
    { DecodeCallOf([IdleValues EXCEPT !.temps = t], "GEMBin48Net", NumSlots, 1000) :
        t \in [1..NumTemps -> TempSamples] }

(***************************************************************************)
(* calendar.timegm of the standard library, as GEMBin48NetTime calls it.   *)
(***************************************************************************)
\* datetime's _days_before_year: the days before January 1st of year
DaysBeforeYear(year) ==
    LET y == year - 1
    IN  y * 365 + (y \div 4) - (y \div 100) + (y \div 400)

IsLeap(year) == year % 4 = 0 /\ (year % 100 # 0 \/ year % 400 = 0)

\* datetime's _DAYS_IN_MONTH, February of a leap year included
DaysInMonth(year, month) ==
    IF month = 2 THEN (IF IsLeap(year) THEN 29 ELSE 28)
    ELSE IF month \in {4, 6, 9, 11} THEN 30 ELSE 31

RECURSIVE DaysBeforeMonth(_, _)
\* datetime's _days_before_month: the days of year before the 1st of month
DaysBeforeMonth(year, month) ==
    IF month = 1 THEN 0
    ELSE DaysBeforeMonth(year, month - 1) + DaysInMonth(year, month - 1)

\* datetime.date(year, month, 1).toordinal(), or the ValueError of a month
\* outside 1..12 (the years 2000..2255 of the packet are all accepted)
FirstOfMonthOrdinal(year, month) ==
    IF month \notin 1..12 THEN [error |-> "ValueError", value |-> 0]
    ELSE [error |-> "none", value |-> DaysBeforeYear(year) + DaysBeforeMonth(year, month) + 1]

\* calendar._EPOCH_ORD = datetime.date(1970, 1, 1).toordinal()
EpochOrdinal == DaysBeforeYear(1970) + 1

\* calendar.timegm: only the month is looked up; day, hour, minute and
\* second are added as they are.
timegm(year, month, day, hour, minute, second) ==
    LET first == FirstOfMonthOrdinal(year, month)
    IN  IF first.error # "none" THEN first
        ELSE [error |-> "none",
              value |-> ((((first.value - EpochOrdinal + day - 1) * 24 + hour) * 60
                            + minute) * 60) + second]

\* The outcome of a call of _extract_packet_from: the exception raised, or
\* the packet returned.
Raised(e) == [error |-> e, packet |-> EmptyDict]

Returned(packet) == [error |-> "none", packet |-> packet]

\* GEMBin48Net._extract_packet_from
ExtractNet(byte_buf, max_channels, now) ==
    IF ExtractError(byte_buf) # "none" THEN Raised(ExtractError(byte_buf))
    ELSE Returned(ExtractBin48Net(byte_buf, max_channels, now))

\* GEMBin48NetTime._extract_packet_from: the packet of the superclass with
\* time_created added, 0 when timegm raised ValueError. Unpacking a slice of
\* fewer than six bytes into Y, M, D, h, m, s raises ValueError before the
\* try.
ExtractNetTime(byte_buf, max_channels, now) ==
    LET super == ExtractNet(byte_buf, max_channels, now)
        tm == PySlice(byte_buf, TimeOffset, TimeOffset + 6)
    IN  IF super.error # "none" THEN super
        ELSE IF Len(tm) # 6 THEN Raised("ValueError")
        ELSE LET t == timegm(tm[1] + 2000, tm[2], tm[3], tm[4], tm[5], tm[6])
             IN  Returned(Updated(super.packet,
                     Key("time_created") :> Num(IF t.error = "ValueError" THEN 0 ELSE t.value)))

\* packet_obj._extract_packet_from of the configured packet type
ExtractOf(call) ==
    IF call.packet_type = "GEMBin48NetTime"
    THEN ExtractNetTime(call.byte_buf, call.max_channels, call.now)
    ELSE ExtractNet(call.byte_buf, call.max_channels, call.now)

\* The six date and time bytes of a packet: dates and times of the
\* calendar and others.
TimeSamples ==
    { <<Y, M, D, h, m, s>> :
        Y \in {0, 24}, M \in {0, 1, 2, 12, 13}, D \in {0, 1, 29, 30, 31, 32},
        h \in {0, 23, 24}, m \in {0, 59, 60}, s \in {0, 59, 60} }

\* Packets of GEMBin48NetTime that differ in their date and time.
TimeCalls ==
    { DecodeCallOf([IdleValues EXCEPT !.time = t], "GEMBin48NetTime", NumSlots, 1000) :
        t \in TimeSamples }

\* The two bytes of the temperature t, its sign in the top bit of the second
TempBytes(t) == <<t.halves % 256, (t.halves \div 256) + (IF t.neg THEN 128 ELSE 0)>>

\* Packets of both binary formats that differ in every field: voltage,
\* serial number, unit id, seconds, the energies and the current of the
\* max_channels channels in use (the other slots are zero), pulse counts,
\* temperatures within range and, in the time-stamped format, a date and
\* time of the calendar.
FieldCalls ==
    { DecodeCallOf(
          [volt |-> volt, ser_no |-> ser_no, unit_id |-> unit_id, secs |-> secs,
           aws |-> [i \in 1..NumSlots |-> IF i <= mc THEN ch[i][1] ELSE 0],
           pws |-> [i \in 1..NumSlots |-> IF i <= mc THEN ch[i][2] ELSE 0],
           amps |-> [i \in 1..NumSlots |-> IF i <= mc THEN ch[i][3] ELSE 0],
           pulses |-> [i \in 1..NumPulses |-> IF i = 1 THEN pulse ELSE i],
           temps |-> [i \in 1..NumTemps |-> TempBytes(IF i = 1 THEN temp ELSE Float(FALSE, i))],
           time |-> IF type = "GEMBin48NetTime" THEN <<24, 2, 29, 23, 59, 59>> ELSE <<>>],
          type, mc, 1000) :
        volt \in {0, 1205, 65535}, ser_no \in {258, 65535}, unit_id \in {0, 255},
        secs \in {0, 2^24 - 1}, mc \in 1..NumSlots,
        ch \in [1..NumSlots -> {0, 2147483647} \X {1, 66000} \X {0, 65535}],
        pulse \in {0, 2^24 - 1}, temp \in {Float(TRUE, 100), Float(FALSE, 510)},
        type \in {"GEMBin48Net", "GEMBin48NetTime"} }

InitDecode ==
    /\ pc = "extract"
    /\ InitSock
    /\ InitRd
    /\ InitCmd
    /\ InitDrv
    /\ InitGp
    /\ InitDv
    /\ fn_in \in TempCalls \cup TimeCalls \cup FieldCalls
    /\ fn_out = <<>>

DecodeCall ==
    /\ pc = "extract"
    /\ pc' = "extracted"
    /\ fn_out' = ExtractOf(fn_in)
    /\ UNCHANGED <<fn_in, sockVars, rdVars, cmdVars, drvVars, gpVars, dvVars>>

NextDecode ==
    \/ DecodeCall

SpecDecode == InitDecode /\ [][NextDecode]_vars

(***************************************************************************)
(* Claims about the decoding of binary packets.                            *)
(***************************************************************************)
\* The temperature channel n of the packet decoded.
TempName(n) == Name(n, "", "_temperature")

\* C23: the packet decoded from a binary buffer has chN_temperature exactly
\* for the channels N of 1..8 whose decoded magnitude is at most 255, each
\* with the temperature decoded from its own two bytes.
C23_OutOfRangeDropped ==
    pc = "extracted" /\ fn_out.error = "none" =>
        \A n \in 1..NumTemps :
            LET pair == fn_in.values.temps[n]
                halves == (pair[2] % 128) * 256 + pair[1]
            IN  /\ TempName(n) \in DOMAIN fn_out.packet <=> halves <= 510
                /\ halves <= 510 =>
                     fn_out.packet[TempName(n)] = Float(pair[2] >= 128, halves)

\* A packet was decoded whose channel 2 reads 255.5 and is dropped, while
\* channels 1 and 3 read -50.0 and 255.0 and are kept.
C23_Witness ==
    /\ pc = "extracted"
    /\ fn_out.error = "none"
    /\ fn_in.values.temps[1] = <<100, 128>>
    /\ fn_in.values.temps[2] = <<255, 1>>
    /\ fn_in.values.temps[3] = <<254, 1>>
    /\ TempName(2) \notin DOMAIN fn_out.packet
    /\ fn_out.packet[TempName(1)] = Float(TRUE, 100)
    /\ fn_out.packet[TempName(3)] = Float(FALSE, 510)

\* The six bytes Y, M, D, h, m, s are a date and time of the calendar.
ValidDateTime(t) ==
    /\ t[2] \in 1..12
    /\ t[3] \in 1..DaysInMonth(2000 + t[1], t[2])
    /\ t[4] <= 23
    /\ t[5] <= 59
    /\ t[6] <= 59

\* The seconds from 1970-01-01 00:00:00 UTC to the date and time t.
EpochOf(t) ==
    (DaysBeforeYear(2000 + t[1]) - DaysBeforeYear(1970)
        + DaysBeforeMonth(2000 + t[1], t[2]) + t[3] - 1) * 86400
    + t[4] * 3600 + t[5] * 60 + t[6]

\* C24: decoding a time-stamped packet raises nothing, and its time_created
\* is the UTC epoch of (2000+Y, M, D, h, m, s) when the six bytes are a date
\* and time of the calendar, and 0 for every other combination.
C24_InvalidTimeIsZero ==
    pc = "extracted" /\ fn_in.packet_type = "GEMBin48NetTime" =>
        /\ fn_out.error = "none"
        /\ fn_out.packet[Key("time_created")] =
             Num(IF ValidDateTime(fn_in.values.time) THEN EpochOf(fn_in.values.time) ELSE 0)

(***************************************************************************)
(* The decoding of an ASCII packet: GEMAscii._extract_packet_from.         *)
(*                                                                         *)
(* The buffer is the list of (key, value) pairs parse_qsl makes of it. A   *)
(* key is the sequence of its characters; a value is the number it spells  *)
(* (int(val) and float(val) of a number raise nothing).                    *)
(***************************************************************************)
DigitChars == <<"0", "1", "2", "3", "4", "5", "6", "7", "8", "9">>

IsDigit(c) == \E d \in 1..10 : DigitChars[d] = c

DigitValue(c) == (CHOOSE d \in 1..10 : DigitChars[d] = c) - 1

\* obs_type.find(b'_'): the index of the first underscore, or -1
FindUnderscore(key) ==
    IF \E i \in 1..Len(key) : key[i] = "_"
    THEN (CHOOSE i \in 1..Len(key) : key[i] = "_" /\ \A j \in 1..(i - 1) : key[j] # "_") - 1
    ELSE -1

RECURSIVE DecimalValue(_, _)
\* The number spelled by the digits cs, after the digits that gave acc
DecimalValue(cs, acc) ==
    IF cs = <<>> THEN acc ELSE DecimalValue(Drop(cs, 1), acc * 10 + DigitValue(cs[1]))

\* int(s) for a byte string s of the model: the number, or ValueError when s
\* is empty or has a character that is not a digit
ParseInt(s) ==
    IF s # <<>> /\ \A i \in 1..Len(s) : IsDigit(s[i])
    THEN [error |-> "none", value |-> DecimalValue(s, 0)]
    ELSE [error |-> "ValueError", value |-> 0]

\* One pass of the loop of _extract_packet_from, for the pair (obs_type,
\* val): the packet it leaves or the exception it raises. The branch for
\* 'ch%d_count' tests obs_generic == 'p' a second time and is never taken;
\* log.debug raises nothing.
AsciiPair(packet, obs_type, val) ==
    LET underscore == FindUnderscore(obs_type)
        channel == ParseInt(PyFrom(obs_type, underscore + 1))
        obs_generic == PySlice(obs_type, 0, IF underscore >= 0 THEN underscore ELSE Len(obs_type) - 1)
    IN  IF obs_type = <<"n">> THEN Returned(Updated(packet, Key("ser_no") :> Num(val)))
        ELSE IF obs_type = <<"m">> THEN Returned(Updated(packet, Key("secs") :> Num(val * 60)))
        ELSE IF obs_type = <<"v">> THEN Returned(Updated(packet, Name(1, "", "_volt") :> Num(val)))
        ELSE IF channel.error # "none" THEN Raised(channel.error)
        ELSE IF obs_generic = <<"w", "h">>
             THEN Returned(Updated(packet, Name(channel.value, "", "_energy2") :> Num(val * 3600)))
        ELSE IF obs_generic = <<"p">>
             THEN Returned(Updated(packet, Name(channel.value, "", "_power") :> Num(val)))
        ELSE IF obs_generic = <<"a">>
             THEN Returned(Updated(packet, Name(channel.value, "", "_amp") :> Num(val)))
        ELSE IF obs_generic = <<"t">>
             THEN Returned(Updated(packet, Name(channel.value, "", "_temperature") :> Num(val)))
        ELSE Returned(packet)

RECURSIVE AsciiLoop(_, _)
\* "for obs_type, val in tuple_buf", from the packet so far
AsciiLoop(tuple_buf, packet) ==
    IF tuple_buf = <<>> THEN Returned(packet)
    ELSE LET r == AsciiPair(packet, tuple_buf[1][1], tuple_buf[1][2])
         IN  IF r.error # "none" THEN r ELSE AsciiLoop(Drop(tuple_buf, 1), r.packet)

\* GEMAscii._extract_packet_from on the pairs of the buffer
ExtractAscii(tuple_buf) == AsciiLoop(tuple_buf, EmptyDict)

\* The keys of the packets of the model: the ones the decoder knows, and
\* zz_3, foo, dt and x_y that it does not.
AsciiKeys ==
    { <<"n">>, <<"m">>, <<"v">>, <<"w", "h", "_", "1">>, <<"p", "_", "1">>,
      <<"a", "_", "2">>, <<"t", "_", "1", "2">>,
      <<"z", "z", "_", "3">>, <<"f", "o", "o">>, <<"d", "t">>, <<"x", "_", "y">> }

\* The values of the packets of the model.
AsciiValues == {2}

AsciiBuffers ==
    UNION { [1..n -> AsciiKeys \X AsciiValues] : n \in 0..MaxPairs }

InitAscii ==
    /\ pc = "extract_ascii"
    /\ InitSock
    /\ InitRd
    /\ InitCmd
    /\ InitDrv
    /\ InitGp
    /\ InitDv
    /\ fn_in \in AsciiBuffers
    /\ fn_out = <<>>

AsciiCall ==
    /\ pc = "extract_ascii"
    /\ pc' = "extracted_ascii"
    /\ fn_out' = ExtractAscii(fn_in)
    /\ UNCHANGED <<fn_in, sockVars, rdVars, cmdVars, drvVars, gpVars, dvVars>>

NextAscii ==
    \/ AsciiCall

SpecAscii == InitAscii /\ [][NextAscii]_vars

(***************************************************************************)
(* Claims about the decoding of ASCII packets.                             *)
(***************************************************************************)
\* The field a pair the decoder recognises is decoded into, and its value.
RecognisedKeys ==
    { <<"n">>, <<"m">>, <<"v">>, <<"w", "h", "_", "1">>, <<"p", "_", "1">>,
      <<"a", "_", "2">>, <<"t", "_", "1", "2">> }

FieldOf(key) ==
    IF key = <<"n">> THEN Key("ser_no")
    ELSE IF key = <<"m">> THEN Key("secs")
    ELSE IF key = <<"v">> THEN Name(1, "", "_volt")
    ELSE IF key = <<"w", "h", "_", "1">> THEN Name(1, "", "_energy2")
    ELSE IF key = <<"p", "_", "1">> THEN Name(1, "", "_power")
    ELSE IF key = <<"a", "_", "2">> THEN Name(2, "", "_amp")
    ELSE Name(12, "", "_temperature")

\* C25: decoding an ASCII buffer raises nothing, whatever keys the decoder
\* does not recognise are in it, and every pair it recognises is in the
\* packet.
C25_UnknownKeysSkipped ==
    pc = "extracted_ascii" =>
        /\ fn_out.error = "none"
        /\ \A i \in 1..Len(fn_in) :
               fn_in[i][1] \in RecognisedKeys => FieldOf(fn_in[i][1]) \in DOMAIN fn_out.packet

\* The packet was built from temperatures within range and, in the
\* time-stamped format, from a date and time of the calendar.
Decodable(call) ==
    /\ \A n \in 1..NumTemps :
           (call.values.temps[n][2] % 128) * 256 + call.values.temps[n][1] <= 510
    /\ call.packet_type = "GEMBin48NetTime" => ValidDateTime(call.values.time)

\* C26: decoding the valid packet built from field values returns exactly
\* those values: voltage in tenths, serial number, unit id, seconds, the
\* absolute and polarized energy and the current (in fiftieths) of every
\* channel in use, the 4 pulse counts, the 8 temperatures and, in the
\* time-stamped format, the epoch of the date and time.
C26_RoundTrip ==
    pc = "extracted" /\ Decodable(fn_in) =>
        LET v == fn_in.values
            p == fn_out.packet
        IN  /\ fn_out.error = "none"
            /\ Len(fn_in.byte_buf) =
                 (IF fn_in.packet_type = "GEMBin48NetTime" THEN BinTimeLength ELSE BinLength)
            /\ p[Name(1, "", "_volt")] = Quotient(v.volt, 10)
            /\ p[Key("ser_no")] = Num(v.ser_no)
            /\ p[Key("unit_id")] = Num(v.unit_id)
            /\ p[Key("secs")] = Num(v.secs)
            /\ \A i \in 1..fn_in.max_channels :
                   /\ p[Name(i, "_a", "_energy2")] = Num(v.aws[i])
                   /\ p[Name(i, "_p", "_energy2")] = Num(v.pws[i])
                   /\ p[Name(i, "", "_amp")] = Quotient(v.amps[i], 50)
            /\ \A i \in 1..NumPulses : p[Name(i, "", "_count")] = Num(v.pulses[i])
            /\ \A n \in 1..NumTemps : TempBytes(p[TempName(n)]) = v.temps[n]
            /\ fn_in.packet_type = "GEMBin48NetTime" =>
                   p[Key("time_created")] = Num(EpochOf(v.time))

\* A time-stamped packet with the largest voltage, serial number, seconds
\* and pulse counter and a temperature of -50.0 was decoded.
C26_Witness ==
    /\ pc = "extracted"
    /\ fn_out.error = "none"
    /\ fn_in.packet_type = "GEMBin48NetTime"
    /\ fn_in.values.volt = 65535
    /\ fn_in.values.aws[1] = 2147483647
    /\ fn_out.packet[Name(1, "", "_volt")] = Quotient(65535, 10)
    /\ fn_out.packet[Key("ser_no")] = Num(65535)
    /\ fn_out.packet[Key("secs")] = Num(2^24 - 1)
    /\ fn_out.packet[Name(1, "_a", "_energy2")] = Num(2147483647)
    /\ fn_out.packet[Name(1, "", "_count")] = Num(2^24 - 1)
    /\ fn_out.packet[TempName(1)] = Float(TRUE, 100)
    /\ fn_out.packet[Key("time_created")] = Num(1709251199)

(***************************************************************************)
(* The regular expressions for the channel types, matched with re.match    *)
(* against a name, which is the sequence of its characters.                *)
(***************************************************************************)
StartsWith(s, prefix) == Len(s) >= Len(prefix) /\ Take(s, Len(prefix)) = prefix

RECURSIVE LeadingDigits(_)
\* The number of digits s begins with
LeadingDigits(s) ==
    IF s # <<>> /\ IsDigit(s[1]) THEN 1 + LeadingDigits(Drop(s, 1)) ELSE 0

\* re.match of '^ch[0-9]+(<one of groups>)?<tail>$' on name: "ch", one or
\* more digits, optionally one of the groups, the tail, and then the end of
\* the name or a newline that ends it.
ChannelReMatch(name, groups, tail) ==
    /\ StartsWith(name, <<"c", "h">>)
    /\ \E k \in 1..LeadingDigits(Drop(name, 2)) :
         \E g \in groups \cup {<<>>} :
            LET rest == Drop(name, 2 + k)
            IN  rest = g \o tail \/ rest = (g \o tail) \o <<"\n">>

Energy2Tail == <<"_", "e", "n", "e", "r", "g", "y", "2">>

PowerTail == <<"_", "p", "o", "w", "e", "r">>

\* energy2_re with the group of denergy2_re allowed as well.
energy2_re_loose(name) ==
    ChannelReMatch(name, {<<"_", "a">>, <<"_", "p">>, <<"_", "a", "d">>, <<"_", "p", "d">>},
                   Energy2Tail)

\* energy2_re = '^ch[0-9]+(_[ap])?_energy2$'
energy2_re(name) == ChannelReMatch(name, {<<"_", "a">>, <<"_", "p">>}, Energy2Tail)

\* denergy2_re = '^ch[0-9]+(_[ap]d)?_energy2$'
denergy2_re(name) ==
    ChannelReMatch(name, {<<"_", "a", "d">>, <<"_", "p", "d">>}, Energy2Tail)

\* power_re = '^ch[0-9]+(_[ap])?_power$'
power_re(name) == ChannelReMatch(name, {<<"_", "a">>, <<"_", "p">>}, PowerTail)

\* 'ch%d' % n followed by mid and tail
Spelled(n, mid, tail) ==
    LET ds == DecimalDigits(n, 1)
    IN  (<<"c", "h">> \o [i \in 1..Len(ds) |-> DigitChars[ds[i] + 1]]) \o (mid \o tail)

\* The names the expressions are matched against: channel names of every
\* kind, and the same names with a character in front, without their
\* number or with a newline at the end.
ReNames ==
    LET mids == {<<>>, <<"_", "a">>, <<"_", "p">>, <<"_", "a", "d">>, <<"_", "p", "d">>,
                 <<"_", "d">>}
        tails == {Energy2Tail, PowerTail, <<"_", "a", "m", "p">>}
        good == { Spelled(n, mid, tail) : n \in 1..MaxChannelNo, mid \in mids, tail \in tails }
    IN  good
        \cup { <<"x">> \o s : s \in { t \in good : t[3] = "1" /\ t[4] = "_" } }
        \cup { <<"c", "h">> \o (mid \o tail) : mid \in mids, tail \in tails }
        \cup { Append(s, "\n") : s \in { t \in good : t[3] = "2" /\ t[4] = "_" } }

InitRe ==
    /\ pc = "match"
    /\ InitSock
    /\ InitRd
    /\ InitCmd
    /\ InitDrv
    /\ InitGp
    /\ InitDv
    /\ fn_in \in ReNames
    /\ fn_out = <<>>

\* The three expressions are matched against the name.
ReCall ==
    /\ pc = "match"
    /\ pc' = "matched"
    /\ fn_out' = [energy2 |-> energy2_re(fn_in), denergy2 |-> denergy2_re(fn_in),
                  power |-> power_re(fn_in)]
    /\ UNCHANGED <<fn_in, sockVars, rdVars, cmdVars, drvVars, gpVars, dvVars>>

NextRe ==
    \/ ReCall

SpecRe == InitRe /\ [][NextRe]_vars

(***************************************************************************)
(* Claims about the regular expressions.                                   *)
(***************************************************************************)
\* The name is chN<mid><tail> for a channel number N.
IsChannelName(name, mid, tail) ==
    \E n \in 1..MaxChannelNo : name = Spelled(n, mid, tail)

\* C27: for every channel number N and k in {a, p}, energy2_re matches
\* chN_k_energy2 and not chN_kd_energy2, denergy2_re matches chN_kd_energy2
\* and not chN_k_energy2, and power_re matches chN_k_power.
C27_ChannelExpressions ==
    pc = "matched" =>
        \A k \in {"a", "p"} :
            /\ IsChannelName(fn_in, <<"_", k>>, Energy2Tail) =>
                   fn_out.energy2 /\ ~fn_out.denergy2
            /\ IsChannelName(fn_in, <<"_", k, "d">>, Energy2Tail) =>
                   fn_out.denergy2 /\ ~fn_out.energy2
            /\ IsChannelName(fn_in, <<"_", k>>, PowerTail) => fn_out.power

\* ch12_pd_energy2 was matched by denergy2_re and not by energy2_re.
C27_Witness ==
    /\ pc = "matched"
    /\ fn_in = <<"c", "h", "1", "2", "_", "p", "d", "_", "e", "n", "e", "r", "g", "y", "2">>
    /\ fn_out.denergy2
    /\ ~fn_out.energy2

(***************************************************************************)
(* Brultech.setTime(t).                                                    *)
(*                                                                         *)
(* The time t is a day counted from 1970-01-01 and a number of quarter     *)
(* seconds into that day.                                                  *)
(***************************************************************************)
\* b"DTM\r\n"
DTM_ACK == <<68, 84, 77, 13, 10>>

\* "int(t + 0.75)": the day and the second of the day, the next day when
\* the time is rounded up past midnight
RoundedUp(t) ==
    LET sec == (t.quarters + 3) \div 4
    IN  IF sec = 86400 THEN [day |-> t.day + 1, sec |-> 0] ELSE [day |-> t.day, sec |-> sec]

\* The first six fields of time.gmtime for a second of a day
gmtime(r) ==
    LET ord == r.day + EpochOrdinal
        year == CHOOSE y \in 1970..2200 :
                    DaysBeforeYear(y) < ord /\ ord <= DaysBeforeYear(y + 1)
        yday == ord - DaysBeforeYear(year)
        month == CHOOSE mo \in 1..12 :
                    /\ DaysBeforeMonth(year, mo) < yday
                    /\ yday <= DaysBeforeMonth(year, mo) + DaysInMonth(year, mo)
    IN  <<year, month, yday - DaysBeforeMonth(year, month),
          r.sec \div 3600, (r.sec \div 60) % 60, r.sec % 60>>

\* The characters of the decimal digits ds
DigitString(ds) == [i \in 1..Len(ds) |-> DigitChars[ds[i] + 1]]

\* b"%02d" % x: at least two characters, the sign of a negative number
\* counted among them
Format02d(x) ==
    IF x >= 0 THEN DigitString(DecimalDigits(x, 2))
    ELSE <<"-">> \o DigitString(DecimalDigits(-x, 1))

RECURSIVE Joined(_)
\* b",".join(parts)
Joined(parts) ==
    IF Len(parts) = 0 THEN <<>>
    ELSE IF Len(parts) = 1 THEN parts[1]
    ELSE (parts[1] \o <<",">>) \o Joined(Drop(parts, 1))

\* time_str of setTime(t): "y -= 2000", then the six fields formatted and
\* joined
TimeStr(t) ==
    LET tt == gmtime(RoundedUp(t))
        fields == <<tt[1] - 2000, tt[2], tt[3], tt[4], tt[5], tt[6]>>
    IN  Joined([i \in 1..6 |-> Format02d(fields[i])])

\* The day of the date (year, month, day), counted from 1970-01-01
DayOf(year, month, day) ==
    DaysBeforeYear(year) + DaysBeforeMonth(year, month) + day - EpochOrdinal

\* The times setTime is called with: the date, the second of the day and
\* the quarter of the second.
SetTimeArgs ==
    { [date |-> d, day |-> DayOf(d[1], d[2], d[3]), quarters |-> 4 * s + q] :
        d \in {<<2024, 2, 29>>, <<2099, 12, 31>>, <<2100, 1, 1>>, <<2000, 1, 1>>},
        s \in {0, 86399}, q \in {0, 2} }

InitSetTime ==
    /\ pc = "set_time"
    /\ InitSock
    /\ InitRd
    /\ InitCmd
    /\ InitDrv
    /\ InitGp
    /\ InitDv
    /\ fn_in \in SetTimeArgs
    /\ fn_out = <<>>

\* setTime up to its call of write_with_response.
SetTimeCall ==
    /\ pc = "set_time"
    /\ fn_out' = TimeStr(fn_in)
    /\ CmdEnter(Prompt("^^^SYSDTM", TimeStr(fn_in)), DTM_ACK, DefaultMaxTries, "set_time_done")
    /\ UNCHANGED <<fn_in, sockVars, rdVars, drvVars, gpVars, dvVars>>

NextSetTime ==
    \/ SetTimeCall
    \/ CmdWrite
    \/ CmdWriteError
    \/ CmdPeek
    \/ ReadRecv
    \/ ReadRecvEOF
    \/ ReadRecvError
    \/ CmdReadFailed
    \/ CmdAccepted
    \/ CmdRejected
    \/ Arrive
    \/ PeerClose

SpecSetTime == InitSetTime /\ [][NextSetTime]_vars

(***************************************************************************)
(* Claims about setTime.                                                   *)
(***************************************************************************)
\* The date and time setTime sets for the argument t: the six fields as the
\* calendar gives them for the day and second t is rounded to.
CivilOf(t) ==
    LET sec == (t.quarters + 3) \div 4
        d == t.date
        next == IF d[3] < DaysInMonth(d[1], d[2]) THEN <<d[1], d[2], d[3] + 1>>
                ELSE IF d[2] < 12 THEN <<d[1], d[2] + 1, 1>>
                ELSE <<d[1] + 1, 1, 1>>
    IN  IF sec = 86400 THEN <<next[1], next[2], next[3], 0, 0, 0>>
        ELSE <<d[1], d[2], d[3], sec \div 3600, (sec \div 60) % 60, sec % 60>>

\* The two decimal digits of a number below 100
TwoChars(n) == <<DigitChars[(n \div 10) + 1], DigitChars[(n % 10) + 1]>>

\* C28: every command setTime writes is ^^^SYSDTM with six two-digit fields
\* separated by commas: the year modulo 100, month, day, hour, minute and
\* second of the time set; it is written once for each try, and setTime
\* returns normally only after the response DTM\r\n.
C28_SetTimeCommand ==
    LET c == CivilOf(fn_in)
        expected == Joined(<<TwoChars(c[1] % 100), TwoChars(c[2]), TwoChars(c[3]),
                            TwoChars(c[4]), TwoChars(c[5]), TwoChars(c[6])>>)
    IN  /\ \A i \in 1..Len(log) :
               log[i].ev = "write" => log[i].prompt = Prompt("^^^SYSDTM", expected)
        /\ pc # "set_time" => Len(fn_out) = 17
        /\ cmd_writes <= Len(cmd_hist) + 1
        /\ cmd_status = "returned" =>
               /\ log[Len(log)].ev = "ack"
               /\ log[Len(log)].data = DTM_ACK
               /\ cmd_writes = Len(cmd_hist)

(***************************************************************************)
(* Claims about the read of a response of unknown length.                  *)
(***************************************************************************)
\* s ends with t
EndsWith(s, t) == Len(s) >= Len(t) /\ SubSeq(s, Len(s) - Len(t) + 1, Len(s)) = t

\* The driver of an ASCII device has written its packet request and
\* get_packet has come to its end.
AsciiPollDone ==
    /\ packet_type = "GEMAscii"
    /\ polls >= 1
    /\ gp_result \notin {"none", "StopIteration"}
    /\ \E i \in 1..Len(log) : log[i] = Event("write", APISPK, <<>>)

\* C29: the read of a response of unknown length returns the response
\* whole, in however many segments it arrives, and when the device sends
\* nothing on an open connection it ends normally with what was collected.
C29_UnknownLengthReadWhole ==
    AsciiPollDone =>
        /\ gp_result = "packet" => EndsWith(gp_buf, gp_reply)
        /\ gp_reply = <<>> /\ ~peer_closed => gp_result = "packet"

(***************************************************************************)
(* gem_driver.GenWithDelay, iterated by the for loop of                    *)
(* GEM.genLoopPackets with func = packet_driver.calculate.                 *)
(*                                                                         *)
(* The source is the sequence of the items its generator yields before it  *)
(* ends, each item the value of an energy counter. fn_out holds the        *)
(* GenWithDelay object, the number of items taken from the source, the     *)
(* results yielded so far and how the iteration stands.                    *)
(***************************************************************************)
\* The values of the counter of an item.
CounterValues == 0..2

\* GEMBase.calculate(prev, now): CounterResetError when the counter fell,
\* else the record computed from the two.
calculate(prev, now) ==
    IF now < prev THEN [error |-> "CounterResetError", retval |-> <<>>]
    ELSE [error |-> "none", retval |-> <<prev, now>>]

\* self.previous after a pair, when it is never replaced.
PreviousKept(previous, now) == previous

\* self.previous after a pair whose func returned:
\* "retval, self.previous = self.func(self.previous, now), now"
PreviousAfter(previous, now) == now

\* GenWithDelay.__init__, before the first next()
NewGenWithDelay ==
    [starting_up |-> TRUE, previous |-> 0, taken |-> 0, results |-> <<>>,
     status |-> "iterating"]

\* The else branch of next() on the object g over the source xs:
\* generator.next() raises StopIteration at the end of the source; an
\* exception of func leaves next() before anything is assigned.
DelayAdvance(g, xs) ==
    IF g.taken = Len(xs) THEN [g EXCEPT !.status = "StopIteration"]
    ELSE LET now == xs[g.taken + 1]
             r == calculate(g.previous, now)
         IN  IF r.error # "none"
             THEN [g EXCEPT !.taken = g.taken + 1, !.status = r.error]
             ELSE [g EXCEPT !.taken = g.taken + 1,
                            !.results = Append(g.results, r.retval),
                            !.previous = PreviousAfter(g.previous, now)]

\* next(): the first call takes the first item as previous and calls itself.
DelayNextOf(g, xs) ==
    IF g.starting_up
    THEN IF g.taken = Len(xs) THEN [g EXCEPT !.status = "StopIteration"]
         ELSE DelayAdvance([g EXCEPT !.previous = xs[g.taken + 1], !.starting_up = FALSE,
                                     !.taken = g.taken + 1], xs)
    ELSE DelayAdvance(g, xs)

InitDelay ==
    /\ pc = "for_packet"
    /\ InitSock
    /\ InitRd
    /\ InitCmd
    /\ InitDrv
    /\ InitGp
    /\ InitDv
    /\ fn_in \in UNION { [1..n -> CounterValues] : n \in 0..MaxItems }
    /\ fn_out = NewGenWithDelay

\* "for packet in gen_func": one call of next(); StopIteration ends the
\* loop, any other exception leaves genLoopPackets.
DelayNext ==
    /\ pc = "for_packet"
    /\ fn_out' = DelayNextOf(fn_out, fn_in)
    /\ pc' = IF fn_out'.status = "iterating" THEN "for_packet" ELSE "for_ended"
    /\ UNCHANGED <<fn_in, sockVars, rdVars, cmdVars, drvVars, gpVars, dvVars>>

NextDelay ==
    \/ DelayNext

SpecDelay == InitDelay /\ [][NextDelay]_vars

(***************************************************************************)
(* Claims about GenWithDelay.                                              *)
(***************************************************************************)
\* The i-th result is the one computed from items i-1 and i of the source
\* (counted from 0), for every result yielded so far.
ResultsArePairs ==
    \A i \in 1..Len(fn_out.results) : fn_out.results[i] = <<fn_in[i], fn_in[i + 1]>>

UnitIds == {0, 1, 9, 10, 11, 99, 100, 255}

\* The big-endian short of byte_buf[485:487]
SerialNumbers == {0, 1, 9, 10, 99, 100, 1000, 9999, 10000, 65535}

\* The identities of two devices.
InitSerial ==
    /\ pc = "format"
    /\ InitSock
    /\ InitRd
    /\ InitCmd
    /\ InitDrv
    /\ InitGp
    /\ InitDv
    /\ fn_in \in [1..2 -> [unit_id : UnitIds, ser_no : SerialNumbers]]
    /\ fn_out = <<>>

\* The serial of each device is formatted.
SerialCall ==
    /\ pc = "format"
    /\ pc' = "formatted"
    /\ fn_out' = [i \in 1..2 |-> FormatSerial(fn_in[i].unit_id, fn_in[i].ser_no)]
    /\ UNCHANGED <<fn_in, sockVars, rdVars, cmdVars, drvVars, gpVars, dvVars>>

NextSerial ==
    \/ SerialCall

SpecSerial == InitSerial /\ [][NextSerial]_vars

(***************************************************************************)
(* Claims about the formatted serial number.                               *)
(***************************************************************************)
RECURSIVE ValueOfDigits(_)
\* The number a string of decimal digits stands for
ValueOfDigits(ds) ==
    IF ds = <<>> THEN 0
    ELSE 10 * ValueOfDigits(SubSeq(ds, 1, Len(ds) - 1)) + ds[Len(ds)]

\* C31: for unit ids in 0..255 and serial numbers in 0..65535 the serial is
\* exactly 8 decimal digits, the first 3 the unit id and the last 5 the
\* serial number, and two different identities have different serials.
C31_SerialFixedWidth ==
    pc = "formatted" =>
        /\ \A i \in 1..2 :
              /\ Len(fn_out[i]) = 8
              /\ \A k \in 1..8 : fn_out[i][k] \in 0..9
              /\ ValueOfDigits(SubSeq(fn_out[i], 1, 3)) = fn_in[i].unit_id
              /\ ValueOfDigits(SubSeq(fn_out[i], 4, 8)) = fn_in[i].ser_no
        /\ fn_in[1] # fn_in[2] => fn_out[1] # fn_out[2]

\* Two devices whose numbers run together to the same digits without the
\* padding (unit 1 with serial 10, unit 11 with serial 0) have been formatted.
C31_Witness ==
    /\ pc = "formatted"
    /\ fn_in[1] = [unit_id |-> 1, ser_no |-> 10]
    /\ fn_in[2] = [unit_id |-> 11, ser_no |-> 0]
    /\ fn_out[1] = <<0, 0, 1, 0, 0, 0, 1, 0>>
    /\ fn_out[2] = <<0, 1, 1, 0, 0, 0, 0, 0>>

(***************************************************************************)
(* Specification of GEM.gen_packets (gem_driver.py): the generator behind  *)
(* the legacy driver's packets, with its budget of consecutive failures.   *)
(* fn_in is self.max_tries; fn_out holds i_try, the outcomes of the calls  *)
(* of get_packet_from so far ("packet" or "error", a history), and whether *)
(* the generator is still running.                                         *)
(***************************************************************************)
\* "i_try = 1" after the yield: the generator has been resumed.
TryAfterYieldKept(i_try) == i_try

\* "i_try = 1" after the yield: the generator has been resumed.
TryAfterYield(i_try) == 1

\* "if i_try >= self.max_tries: raise"
BudgetSpent(i_try, max_tries) == i_try >= max_tries

\* GEM.__init__ with a max_tries, and the generator at its first pass.
InitGen ==
    /\ pc = "gen_packets"
    /\ InitSock
    /\ InitRd
    /\ InitCmd
    /\ InitDrv
    /\ InitGp
    /\ InitDv
    /\ fn_in \in 1..MaxTries
    /\ fn_out = [i_try |-> 1, hist |-> <<>>, status |-> "running"]

\* get_packet_from returns a packet: it is yielded and, when the consumer
\* asks for the next one, i_try is set back.
GenYield ==
    /\ pc = "gen_packets"
    /\ fn_out.status = "running"
    /\ Len(fn_out.hist) < MaxCalls
    /\ fn_out' = [fn_out EXCEPT !.hist = Append(@, "packet"),
                                !.i_try = TryAfterYield(@)]
    /\ UNCHANGED <<pc, fn_in, sockVars, rdVars, cmdVars, drvVars, gpVars, dvVars>>

\* get_packet_from raises a WeePwrIOError and the budget is not spent: the
\* error is logged and the loop goes on.
GenSwallow ==
    /\ pc = "gen_packets"
    /\ fn_out.status = "running"
    /\ Len(fn_out.hist) < MaxCalls
    /\ ~BudgetSpent(fn_out.i_try, fn_in)
    /\ fn_out' = [fn_out EXCEPT !.hist = Append(@, "error"),
                                !.i_try = @ + 1]
    /\ UNCHANGED <<pc, fn_in, sockVars, rdVars, cmdVars, drvVars, gpVars, dvVars>>

\* get_packet_from raises a WeePwrIOError and the budget is spent: the error
\* is raised again and the generator is finished.
GenReraise ==
    /\ pc = "gen_packets"
    /\ fn_out.status = "running"
    /\ Len(fn_out.hist) < MaxCalls
    /\ BudgetSpent(fn_out.i_try, fn_in)
    /\ fn_out' = [fn_out EXCEPT !.hist = Append(@, "error"),
                                !.status = "WeePwrIOError"]
    /\ pc' = "gen_raised"
    /\ UNCHANGED <<fn_in, sockVars, rdVars, cmdVars, drvVars, gpVars, dvVars>>

NextGen ==
    \/ GenYield
    \/ GenSwallow
    \/ GenReraise

SpecGen == InitGen /\ [][NextGen]_vars

(***************************************************************************)
(* Claims about GEM.gen_packets.                                           *)
(***************************************************************************)
RECURSIVE TrailingErrors(_)
\* The number of failures since the last packet (or since the start)
TrailingErrors(hist) ==
    IF hist = <<>> \/ hist[Len(hist)] = "packet" THEN 0
    ELSE 1 + TrailingErrors(SubSeq(hist, 1, Len(hist) - 1))

\* C32: while gen_packets runs, fewer than max_tries failures of
\* get_packet_from have occurred in a row; it has raised exactly when the
\* last max_tries calls, and no more, have failed in a row. Failures before
\* a yielded packet do not count.
C32_ConsecutiveFailureBudget ==
    /\ fn_out.status = "running" => TrailingErrors(fn_out.hist) < fn_in
    /\ fn_out.status = "WeePwrIOError" => TrailingErrors(fn_out.hist) = fn_in

\* With a budget of 2: a failure, a packet, a failure, a packet, and the
\* generator is still running; and, in another run, it has raised on two
\* failures in a row after a packet.
C32_Witness ==
    /\ fn_in = 2
    /\ fn_out.hist = <<"error", "packet", "error", "packet", "error", "error">>
    /\ fn_out.status = "WeePwrIOError"

(***************************************************************************)
(* Specification of GEMBase.calculate (gem_driver.py) on two packets.      *)
(* A packet is a dictionary from Name to Num; the tag 'ch%d' % x with a    *)
(* suffix is Name(x, "", suffix). Python 2 divides two integers to the     *)
(* floor; a division by 3600.0 is kept as a Quotient. The five-byte        *)
(* counters count modulo EnergyModulus here (BYTE5_COUNTER_MAX, 256^5, in  *)
(* the code). fn_in holds prev and now, fn_out what _calc_secs returns on  *)
(* them and how calculate leaves: the exception, if any, and the packet    *)
(* now, which calculate changes in place ("ret = now").                    *)
(***************************************************************************)
\* _calc_secs without the correction of a counter that has wrapped.
calc_secs_nowrap(oldpkt, newpkt) ==
    newpkt[Key("secs")].num - oldpkt[Key("secs")].num

\* GEMBase._calc_secs(oldpkt, newpkt)
calc_secs(oldpkt, newpkt) ==
    LET ds == newpkt[Key("secs")].num - oldpkt[Key("secs")].num
    IN  IF newpkt[Key("secs")].num < oldpkt[Key("secs")].num
        THEN ds + SEC_COUNTER_MAX
        ELSE ds

\* GEMBase._calc_pe(tag, ds, ret, prev) for the tag of channel x: the
\* exception it raises, if any, and ret as it leaves it. The first
\* statement that divides by ds comes before the first assignment to ret.
calc_pe(x, ds, ret, prev) ==
    LET aws == ret[Name(x, "", "_aws")].num
        pws == ret[Name(x, "", "_pws")].num
        paws == prev[Name(x, "", "_aws")].num
        ppws == prev[Name(x, "", "_pws")].num
        daws == IF aws < paws THEN aws - paws + EnergyModulus ELSE aws - paws
        dpws == IF pws < ppws THEN pws - ppws + EnergyModulus ELSE pws - ppws
    IN  IF ds = 0 THEN [error |-> "ZeroDivisionError", ret |-> ret]
        ELSE LET w == daws \div ds
                 pw == dpws \div ds
                 nw == w - pw
             IN  [error |-> "none",
                  ret |-> Updated(ret,
                      (Name(x, "", "_w") :> Num(IF nw = 0 THEN -w ELSE w)) @@
                      (Name(x, "", "_pw") :> Num(nw)) @@
                      (Name(x, "", "_nw") :> Num(pw)) @@
                      (Name(x, "", "_pwh") :> Quotient(aws - pws, 3600)) @@
                      (Name(x, "", "_nwh") :> Quotient(pws, 3600)) @@
                      (Name(x, "", "_wh") :> Quotient(aws - 2 * pws, 3600)) @@
                      (Name(x, "", "_dwh") :>
                          Quotient((aws - 2 * pws) - (paws - 2 * ppws), 3600)))]

\* The first loop of calculate that looks at channel 1 only.
CounterResetFirstOnly(prev, now) ==
    now[Name(1, "", "_aws")].num < prev[Name(1, "", "_aws")].num

\* The first loop of calculate: "if c1 < c0: raise CounterResetError" for
\* some channel.
CounterReset(prev, now) ==
    \E x \in 1..NumChan : now[Name(x, "", "_aws")].num < prev[Name(x, "", "_aws")].num

RECURSIVE CalcChannels(_, _, _, _)
\* The second loop of calculate from channel x on, then the interval.
CalcChannels(x, ds, ret, prev) ==
    IF x > NumChan
    THEN [error |-> "none", ret |-> Updated(ret, Key("interval") :> Quotient(ds, 60))]
    ELSE LET r == calc_pe(x, ds, ret, prev)
         IN  IF r.error # "none" THEN r ELSE CalcChannels(x + 1, ds, r.ret, prev)

\* GEMBase.calculate(prev, now)
gem_calculate(prev, now) ==
    IF CounterReset(prev, now) THEN [error |-> "CounterResetError", ret |-> now]
    ELSE CalcChannels(1, calc_secs(prev, now), now, prev)

\* The seconds counters of the packets: three bytes.
SecsValues == {0, 1, 60, SEC_COUNTER_MAX - 1}

\* The five-byte counters of the packets.
WattSecs == {0, 1}

\* The packets extract_packet_from hands on, as far as calculate reads them.
CalcPackets ==
    { (Key("secs") :> Num(s)) @@ cs :
        s \in SecsValues,
        cs \in [{ Name(x, "", t) : x \in 1..NumChan, t \in {"_aws", "_pws"} } ->
                    { Num(v) : v \in WattSecs }] }

InitCalc ==
    /\ pc = "calculate"
    /\ InitSock
    /\ InitRd
    /\ InitCmd
    /\ InitDrv
    /\ InitGp
    /\ InitDv
    /\ fn_in \in [prev : CalcPackets, now : CalcPackets]
    /\ fn_out = <<>>

\* calculate(prev, now)
CalcCall ==
    /\ pc = "calculate"
    /\ pc' = "calculated"
    /\ fn_out' = [secs |-> calc_secs(fn_in.prev, fn_in.now),
                  left |-> gem_calculate(fn_in.prev, fn_in.now)]
    /\ UNCHANGED <<fn_in, sockVars, rdVars, cmdVars, drvVars, gpVars, dvVars>>

NextCalc ==
    \/ CalcCall

SpecCalc == InitCalc /\ [][NextCalc]_vars

(***************************************************************************)
(* Claims about GEMBase.calculate.                                         *)
(***************************************************************************)
\* C33: for seconds counters old and new in [0, 2^24), _calc_secs is
\* (new - old) mod 2^24, which lies in [0, 2^24), and the interval that
\* calculate puts into the packet is that value divided by 60.
C33_SecsModulo ==
    pc = "calculated" =>
        LET old == fn_in.prev[Key("secs")].num
            new == fn_in.now[Key("secs")].num
        IN  /\ fn_out.secs = (new - old) % SEC_COUNTER_MAX
            /\ fn_out.secs \in 0..(SEC_COUNTER_MAX - 1)
            /\ Key("interval") \in DOMAIN fn_out.left.ret =>
                   fn_out.left.ret[Key("interval")] = Quotient(fn_out.secs, 60)

\* The seconds counter has wrapped from its largest value to 60 and the
\* packet has the interval of 61 seconds.
C33_Witness ==
    /\ pc = "calculated"
    /\ fn_in.prev[Key("secs")].num = SEC_COUNTER_MAX - 1
    /\ fn_in.now[Key("secs")].num = 60
    /\ fn_out.secs = 61
    /\ Key("interval") \in DOMAIN fn_out.left.ret

\* The fields calculate derives for the channels, and the interval
DerivedKeys ==
    { Name(x, "", t) : x \in 1..NumChan,
                       t \in {"_w", "_pw", "_nw", "_pwh", "_nwh", "_wh", "_dwh"} }
        \cup {Key("interval")}

\* C35: calculate fails exactly when the absolute counter of some channel
\* has decreased or no second has elapsed; when it fails the packet now has
\* no derived field (it is as it was), and when it succeeds the packet has
\* every derived field of every channel and the interval.
C35_AllOrNothing ==
    pc = "calculated" =>
        LET prev == fn_in.prev
            now == fn_in.now
            decreased == \E x \in 1..NumChan :
                            now[Name(x, "", "_aws")].num < prev[Name(x, "", "_aws")].num
            elapsed == (now[Key("secs")].num - prev[Key("secs")].num) % SEC_COUNTER_MAX
            failed == fn_out.left.error # "none"
        IN  /\ failed <=> (decreased \/ elapsed = 0)
            /\ failed => /\ fn_out.left.ret = now
                         /\ DOMAIN fn_out.left.ret \cap DerivedKeys = {}
            /\ ~failed => DerivedKeys \subseteq DOMAIN fn_out.left.ret

\* calculate has failed on a packet whose last channel has fallen while
\* its first has risen, some seconds after the previous one.
C35_Witness ==
    /\ pc = "calculated"
    /\ fn_in.prev[Name(1, "", "_aws")].num < fn_in.now[Name(1, "", "_aws")].num
    /\ fn_in.prev[Name(NumChan, "", "_aws")].num > fn_in.now[Name(NumChan, "", "_aws")].num
    /\ fn_in.prev[Key("secs")].num # fn_in.now[Key("secs")].num
    /\ fn_out.left.error = "CounterResetError"
    /\ fn_out.left.ret = fn_in.now

(***************************************************************************)
(* Specification of the driver whose packet generator is made anew after   *)
(* a failed cycle: the consumer calls genLoopPackets() again on the same   *)
(* driver, whose connection stays as it is. fn_out is the history of the   *)
(* failures after which that was done.                                     *)
(***************************************************************************)
\* genLoopPackets() again, after the last generator has finished: nothing
\* is written or read before the first get_packet() of the new generator,
\* whose calls are counted from 0.
GenNew ==
    /\ pc = "gen_finished"
    /\ Len(fn_out) < MaxRestarts
    /\ fn_out' = Append(fn_out, gp_result)
    /\ polls' = 0
    /\ pc' = "ready"
    /\ UNCHANGED <<fn_in, sockVars, rdVars, cmdVars, packet_type, drv_max_tries, stp,
                   drv_error, gpVars, dvVars>>

NextPoll ==
    \/ Next
    \/ GenNew

SpecPoll == Init /\ [][NextPoll]_vars

(***************************************************************************)
(* Claims about the cycle after a failed one.                              *)
(***************************************************************************)
\* C34: after a failed get_packet cycle, the buffer the next get_packet has
\* examined starts at the first byte of what the device sent in answer to
\* the new request: it is a beginning of that response, with no byte of an
\* earlier response in it.
C34_NextCycleStartsAtResponse ==
    (Len(fn_out) > 0 /\ polls = 1) => StartsWith(gp_reply, gp_buf)

(***************************************************************************)
(* Specification of augment_record on records that hold power and delta    *)
(* energy fields already, with the names of a binary packet (ch1_a_...)    *)
(* and of an ASCII packet (ch1_...). fn_in holds the record, the previous  *)
(* record and list(record.keys()) as far as the energy fields go, in the   *)
(* order of the dictionary; fn_out is the record as augment_record leaves  *)
(* it and the exception raised, if any.                                    *)
(***************************************************************************)
\* The accumulated energies of channel 1 in a binary and in an ASCII packet
AugmentEnergies == <<Name(1, "_a", "_energy2"), Name(1, "", "_energy2")>>

\* The fields of the records: the energies, and the powers and delta
\* energies that go with them.
AugmentFields ==
    UNION { {e, PowerNameOf(e), DeltaNameOf(e)} :
            e \in { AugmentEnergies[i] : i \in DOMAIN AugmentEnergies } }

\* The records: any of the fields, each None or a number.
AugmentRecords ==
    { Record(10, f) : f \in UNION { [ks -> {None, Num(7)}] : ks \in SUBSET AugmentFields } }

\* The previous records: none, or the energies, None or a number, at an
\* earlier or at the same time.
AugmentPrevious ==
    {NoRecord} \cup
    { Record(t, f) :
        t \in {0, 10},
        f \in UNION { [ks -> {None, Num(3)}] :
                      ks \in SUBSET { AugmentEnergies[i] : i \in DOMAIN AugmentEnergies } } }

InitAugment ==
    /\ pc = "augment"
    /\ InitSock
    /\ InitRd
    /\ InitCmd
    /\ InitDrv
    /\ InitGp
    /\ InitDv
    /\ fn_in \in { [record |-> r, prev_record |-> p,
                    keys |-> SelectSeq(o, LAMBDA n : n \in DOMAIN r.fields)] :
                   r \in AugmentRecords, p \in AugmentPrevious,
                   o \in {AugmentEnergies, <<AugmentEnergies[2], AugmentEnergies[1]>>} }
    /\ fn_out = <<>>

\* augment_record(record, prev_record)
AugmentCall ==
    /\ pc = "augment"
    /\ pc' = "augmented"
    /\ fn_out' = IF fn_in.prev_record.present
                 THEN AugmentKeys(fn_in.record, fn_in.prev_record, fn_in.keys)
                 ELSE [rec |-> fn_in.record, error |-> "none"]
    /\ UNCHANGED <<fn_in, sockVars, rdVars, cmdVars, drvVars, gpVars, dvVars>>

NextAugment ==
    \/ AugmentCall

SpecAugment == InitAugment /\ [][NextAugment]_vars

(***************************************************************************)
(* Claims about augment_record.                                            *)
(***************************************************************************)
\* C36: augment_record only adds fields: every key of the record is still
\* in it with the value it had, whether it returns or raises, so a power or
\* a delta energy that was in the record is not overwritten.
C36_OnlyAdds ==
    pc = "augmented" =>
        /\ fn_out.rec.dateTime = fn_in.record.dateTime
        /\ \A k \in DOMAIN fn_in.record.fields :
              /\ k \in DOMAIN fn_out.rec.fields
              /\ fn_out.rec.fields[k] = fn_in.record.fields[k]

\* An ASCII record with the power the device supplied has been augmented:
\* the delta energy has been added and the power is as it was.
C36_Witness ==
    /\ pc = "augmented"
    /\ fn_in.record.fields = (Name(1, "", "_energy2") :> Num(7)) @@
                             (Name(1, "", "_power") :> Num(7))
    /\ fn_in.prev_record = Record(0, Name(1, "", "_energy2") :> Num(3))
    /\ fn_out.error = "none"
    /\ fn_out.rec.fields[Name(1, "", "d_energy2")] = Num(4)
    /\ fn_out.rec.fields[Name(1, "", "_power")] = Num(7)

(***************************************************************************)
(* Specification of the names augment_record generates from the name of a  *)
(* field, and of the accumulator configuration of the generated delta      *)
(* energy. Names are sequences of characters. fn_in is obs_type; fn_out    *)
(* holds power_name, delta_name and what BTAccumConfig()[delta_name]       *)
(* returns or raises.                                                      *)
(***************************************************************************)
RECURSIVE Replaced(_, _, _)
\* s.replace(old, new) for a non-empty old: every occurrence, from the left
Replaced(s, old, new) ==
    IF Len(s) < Len(old) THEN s
    ELSE IF StartsWith(s, old) THEN new \o Replaced(Drop(s, Len(old)), old, new)
    ELSE <<s[1]>> \o Replaced(Drop(s, 1), old, new)

\* BTAccumConfig.__getitem__(key): the extractor of the configuration it
\* returns ("default" for weewx.accum.OBS_DEFAULTS), or KeyError.
BTAccumConfig(key) ==
    LET volt_re == ChannelReMatch(key, {}, <<"_", "v", "o", "l", "t">>)
        temperature_re ==
            ChannelReMatch(key, {}, <<"_", "t", "e", "m", "p", "e", "r", "a", "t", "u", "r", "e">>)
        count_re == ChannelReMatch(key, {}, <<"_", "c", "o", "u", "n", "t">>)
        extensive == { <<"t", "i", "m", "e", "_", "c", "r", "e", "a", "t", "e", "d">>,
                       <<"s", "e", "c", "s">>, <<"u", "n", "i", "t", "_", "i", "d">> }
        strings == { <<"s", "e", "r", "_", "n", "o">>, <<"s", "e", "r", "i", "a", "l">> }
    IN  IF volt_re \/ temperature_re THEN "default"
        ELSE IF energy2_re(key) \/ count_re \/ key \in extensive THEN "last"
        ELSE IF denergy2_re(key) THEN "sum"
        ELSE IF key \in strings THEN "firstlast"
        ELSE "KeyError"

InitGenerated ==
    /\ pc = "generate"
    /\ InitSock
    /\ InitRd
    /\ InitCmd
    /\ InitDrv
    /\ InitGp
    /\ InitDv
    /\ fn_in \in ReNames
    /\ fn_out = <<>>

\* The two names of the loop of augment_record, and the accumulator
\* configuration looked up for the delta energy.
GeneratedCall ==
    /\ pc = "generate"
    /\ pc' = "generated"
    /\ LET power_name == Replaced(fn_in, Energy2Tail, PowerTail)
           delta_name == Replaced(fn_in, Energy2Tail, <<"d">> \o Energy2Tail)
       IN  fn_out' = [power_name |-> power_name, delta_name |-> delta_name,
                      accum |-> BTAccumConfig(delta_name)]
    /\ UNCHANGED <<fn_in, sockVars, rdVars, cmdVars, drvVars, gpVars, dvVars>>

NextGenerated ==
    \/ GeneratedCall

SpecGenerated == InitGenerated /\ [][NextGenerated]_vars

(***************************************************************************)
(* Claims about the generated names.                                       *)
(***************************************************************************)
\* C37: for every name energy2_re matches, the unqualified chN_energy2 of
\* an ASCII packet included, the delta energy name generated from it is
\* matched by denergy2_re and has the extractor 'sum', and the power name
\* generated from it is matched by power_re.
C37_GeneratedNamesClassified ==
    (pc = "generated" /\ energy2_re(fn_in)) =>
        /\ denergy2_re(fn_out.delta_name)
        /\ fn_out.accum = "sum"
        /\ power_re(fn_out.power_name)

(***************************************************************************)
(* Claims about the two energy expressions together.                       *)
(***************************************************************************)
\* C38: no name is matched by both energy2_re and denergy2_re, so that the
\* order in which the two are tried does not decide how a name is
\* classified.
C38_EnergyClassifiersDisjoint ==
    pc = "matched" => ~(fn_out.energy2 /\ fn_out.denergy2)

(***************************************************************************)
(* Specification of flush_input() and of queued_bytes() followed by        *)
(* read(length), with the timeout of the socket. fn_in is the timeout the  *)
(* socket has before the call (settimeout(timeout) in __init__); fn_out    *)
(* holds the timeout the socket has now, the method called, whether its    *)
(* recv raised, and the bytes queued_bytes() counted.                      *)
(***************************************************************************)
\* The timeout put back only when recv raised nothing, as if
\* settimeout(old_timeout) were the last statement of the try block.
TimeoutAfterNoFinally(old_timeout, raised) == IF raised THEN 0 ELSE old_timeout

\* The timeout after "old_timeout = self.socket.gettimeout();
\* self.socket.settimeout(0); recv ... finally:
\* self.socket.settimeout(old_timeout)", whether recv raised or not.
TimeoutAfter(old_timeout, raised) == old_timeout

\* The timeouts of the model: non-blocking, and two numbers of seconds, the
\* second one the default.
Timeouts == {0, 5, 20}

\* An open socket with its timeout, some bytes queued and some under way.
InitSockOps ==
    /\ pc = "sock_idle"
    /\ net \in {<<>>, <<9>>}
    /\ sock_queue \in {<<>>, <<1>>, <<1, 2>>, <<1, 2, 3>>}
    /\ peer_closed = FALSE
    /\ peer_sent = 0
    /\ log = <<>>
    /\ InitRd
    /\ InitCmd
    /\ InitDrv
    /\ InitGp
    /\ InitDv
    /\ fn_in \in Timeouts
    /\ fn_out = [timeout |-> fn_in, op |-> "none", raised |-> FALSE, peeked |-> <<>>]

\* flush_input(): recv(4096) without blocking returns what is queued (the
\* empty string when the peer has closed) or raises, which is passed over.
FlushInput ==
    /\ pc = "sock_idle"
    /\ LET raised == sock_queue = <<>> /\ ~peer_closed
       IN  fn_out' = [timeout |-> TimeoutAfter(fn_out.timeout, raised), op |-> "flush_input",
                      raised |-> raised, peeked |-> <<>>]
    /\ sock_queue' = Flushed(sock_queue)
    /\ pc' = "flushed"
    /\ UNCHANGED <<net, peer_closed, peer_sent, log, fn_in, rdVars, cmdVars, drvVars, gpVars, dvVars>>

\* "length = self.queued_bytes()": recv(8192, MSG_PEEK) without blocking
\* returns a copy of what is queued or raises, which leaves length at 0;
\* then the call of read(length).
QueuedThenRead ==
    /\ pc = "sock_idle"
    /\ LET raised == sock_queue = <<>> /\ ~peer_closed
       IN  fn_out' = [timeout |-> TimeoutAfter(fn_out.timeout, raised), op |-> "queued_bytes",
                      raised |-> raised, peeked |-> Take(sock_queue, QueuedBytes)]
    /\ ReadEnter(QueuedBytes, DefaultMaxTries, "peek_read_done")
    /\ UNCHANGED <<sockVars, fn_in, cmdVars, drvVars, gpVars, dvVars>>

\* The read never uses up its tries: its first recv ends it.
NextSockOps ==
    \/ FlushInput
    \/ QueuedThenRead
    \/ ReadRecv
    \/ ReadRecvEOF
    \/ ReadRecvError
    \/ Arrive
    \/ PeerClose

SpecSockOps == InitSockOps /\ [][NextSockOps]_vars

(***************************************************************************)
(* Claims about flush_input() and queued_bytes().                          *)
(***************************************************************************)
\* C39: after flush_input() and after queued_bytes() the socket has the
\* timeout it had before, whether recv returned or raised; queued_bytes()
\* takes nothing off the queue, and the read(length) that follows it
\* returns, when it counted any bytes, and what it returns begins with the
\* bytes counted.
C39_TimeoutKeptNothingConsumed ==
    /\ fn_out.op # "none" => fn_out.timeout = fn_in
    /\ (fn_out.op = "queued_bytes" /\ rd_recvs = 0) => StartsWith(sock_queue, fn_out.peeked)
    /\ pc = "peek_read_done" =>
          /\ fn_out.peeked # <<>> => rd_status = "returned"
          /\ rd_status = "returned" => StartsWith(rd_buf, fn_out.peeked)

\* queued_bytes() has counted the two bytes queued at a socket with the
\* default timeout, and the read that followed has returned them.
C39_Witness ==
    /\ pc = "peek_read_done"
    /\ fn_in = 20
    /\ fn_out.peeked = <<1, 2>>
    /\ rd_status = "returned"
    /\ rd_buf = <<1, 2>>
    /\ fn_out.timeout = 20

====
